---- MODULE Spec2Model ----
(***************************************************************************)
(* Download / progress-tracking subsystem of the video-download API        *)
(* server (server.js): POST /v1/download, the yt-dlp output parser, the    *)
(* activeJobs registry, broadcastProgress and the WebSocket subscriptions. *)
(*                                                                         *)
(* Text is modelled at the level of lexemes: an output chunk is a sequence *)
(* of tokens, each token a string holding the characters of one lexeme     *)
(* ("[download]", " ", "10.0", "%", ...).  The regular expressions of the  *)
(* parser are matched over these sequences.  Percentages are kept in       *)
(* tenths of a percent (10.0% is 100, 100% is 1000), times in ms.          *)
(***************************************************************************)
EXTENDS Integers, Sequences, FiniteSets, TLC

VARIABLES
    activeJobs,      \* the Map jobId -> job object (NoJob: no entry)
    pc,              \* where the request handler of each job stands
    downloadedFile,  \* the closure variable of each handler
    exitCode,        \* the code the 'close' event of each child process carried
    chunksSeen,      \* number of stdout 'data' events delivered so far
    tempDirs,        \* job ids whose temp/<jobId> directory exists on disk
    rmPending,       \* job ids with an fs.rm(tempDir) still in flight
    rmErrors,        \* job ids whose fs.rm callback was handed an error
    rmCount,         \* per job: the fs.rm(tempDir) calls that have finished
    res,             \* the HTTP response object of each download request
    lastReq,         \* the url of the latest POST /v1/download and its answer
    lastQuery,       \* the latest GET /v1/download/progress/:jobId and its answer
    timers,          \* pending setTimeout eviction timers: ms left, or NoTimer
    termAge,         \* ms since the job reached completed/failed (history)
    events,          \* per job: the snapshots passed to broadcastProgress
    clients,         \* wss.clients: readyState, jobId and the messages sent
    wsEvents,        \* number of WebSocket events ('connection', 'message',
                     \* 'close') the server has handled
    serverUp,        \* FALSE once the node process died of an uncaught error
    dmMax,           \* DownloadManager: this.maxConcurrentDownloads
    dmQueue,         \* DownloadManager: this.queue, the jobs by submission number
    dmActive,        \* DownloadManager: this.activeDownloads, jobId -> job
    dmJobs,          \* the jobs handed to addToQueue, in order, and their state
    dmStarted,       \* the jobs in the order their execute() was invoked
    dmStatus,        \* the answer of getQueueStatus() read since the last change
    rateLimitStore,  \* security.js: apiKeyId -> timestamps of the allowed calls
    now,             \* Date.now(), in ms since the server started
    rlAllowed,       \* per key: the times at which checkRateLimit allowed a call
    rlLast,          \* the latest checkRateLimit call and its result
    apiKeys,         \* the api_keys table: id -> row
    keySeq,          \* the AUTOINCREMENT counter of api_keys
    bootstrap,       \* the POST /v1/keys/bootstrap requests: where each stands
    keyLog,          \* the latest request that changed api_keys
    auth,            \* the requests inside authenticateKey: where each stands
    logger           \* requestLoggerMiddleware: the closure of each request

jobVars == <<activeJobs, pc, downloadedFile, exitCode, chunksSeen>>
rmLog == <<rmErrors, rmCount>>
fsVars == <<tempDirs, rmPending, rmErrors, rmCount>>
dmVars == <<dmMax, dmQueue, dmActive, dmJobs, dmStarted, dmStatus>>
rlVars == <<rateLimitStore, now, rlAllowed, rlLast>>
keyVars == <<apiKeys, keySeq, bootstrap, keyLog, auth, logger>>
auxVars == <<dmVars, rlVars, keyVars>>
reqVars == <<lastReq, lastQuery, wsEvents, auxVars>>
timeVars == <<timers, termAge>>
serverVars == <<jobVars, fsVars, res, lastReq, lastQuery, wsEvents, timeVars, events,
                clients, serverUp>>
vars == <<activeJobs, pc, downloadedFile, exitCode, chunksSeen, tempDirs, rmPending,
          rmErrors, rmCount, res, lastReq, lastQuery, timers, termAge, events, clients,
          wsEvents, serverUp, dmMax, dmQueue, dmActive, dmJobs, dmStarted, dmStatus,
          rateLimitStore, now, rlAllowed, rlLast, apiKeys, keySeq, bootstrap, keyLog,
          auth, logger>>

-----------------------------------------------------------------------------
(* Bounds of the model *)

MaxJobs == 1          \* accepted download requests
MaxChunks == 2        \* stdout 'data' events, over all jobs
MaxClients == 2       \* WebSocket connections
MaxWsEvents == 4      \* WebSocket events handled, over all connections
TickMs == 150000      \* largest step of the clock
MaxSubmits == 3       \* DownloadManager.addToQueue calls
MaxSlots == 2         \* largest maxConcurrentDownloads option
MaxRlKeys == 2        \* API keys that call checkRateLimit
MaxCalls == 4         \* checkRateLimit calls
MaxNow == 120000      \* the clock of the rate limiter stops here
MaxKeys == 2          \* rows ever inserted into api_keys
MaxBootstraps == 2    \* POST /v1/keys/bootstrap requests
MaxAuth == 2          \* requests that pass through the middleware chain

JobIds == 1..MaxJobs
GateIds == 1..(MaxJobs + 1)       \* the requests of the runs that count processes
ClientIds == 1..MaxClients

-----------------------------------------------------------------------------
(* JavaScript values.  An object is a function from its property names, so  *)
(* that {...a, k: v} is [k |-> v] @@ a and a missing property is a name     *)
(* outside the DOMAIN.                                                      *)

Null == <<"<null>">>            \* let downloadedFile = null
Undefined == "<undefined>"      \* a property or body field that is undefined
EmptyObject == [x \in {} |-> x] \* {...undefined}

RETENTION_MS == 5 * 60 * 1000

Min(a, b) == IF a < b THEN a ELSE b

Has(o, k) == k \in DOMAIN o

-----------------------------------------------------------------------------
(* Lexemes of the yt-dlp output *)

NumVal ==
    ("0.0" :> 0) @@ ("10.0" :> 100) @@ ("50.0" :> 500) @@ ("99.5" :> 995)
    @@ ("100" :> 1000) @@ ("100.0" :> 1000)

NumLex == DOMAIN NumVal                       \* lexemes of \d+\.?\d*
SizeLex == {"50.00MiB", "1.20GiB"}            \* [\d.]+ then letters
TimeLex == {"00:30", "00:05"}                 \* [\d:]+ holding a colon
MergerLit == "[Merger] Merging formats into \""

IsSpace(t) == t \in {" ", "\n"}               \* \s
IsDot(t) == t # "\n"                          \* .
IsNumber(t) == t \in NumLex                   \* \d+\.?\d*  and  [\d.]+
IsSize(t) == t \in SizeLex \cup NumLex        \* [\d.]+\w+
IsTime(t) == t \in TimeLex \cup {"100"}       \* [\d:]+

\* parseFloat of a lexeme of \d+\.?\d*, in tenths
ParseFloat(t) == NumVal[t]

\* Number.prototype.toFixed(1): integer part and the one decimal digit
ToFixed1(p) == <<p \div 10, p % 10>>

\* index of the first token at or after i that is not white space (\s* from i)
RECURSIVE SkipSpace(_, _)
SkipSpace(s, i) ==
    IF i <= Len(s) /\ IsSpace(s[i]) THEN SkipSpace(s, i + 1) ELSE i

\* index after \s+ matched from i, or 0 when s[i] is not white space
Spaces1(s, i) == IF i <= Len(s) /\ IsSpace(s[i]) THEN SkipSpace(s, i) ELSE 0

\* index of the last token of the line that holds position i (. stops at \n)
RECURSIVE LineEnd(_, _)
LineEnd(s, i) ==
    IF i < Len(s) /\ IsDot(s[i + 1]) THEN LineEnd(s, i + 1) ELSE i

\* String.prototype.trim on a sequence of tokens
RECURSIVE TrimLeft(_)
TrimLeft(s) == IF s # <<>> /\ IsSpace(Head(s)) THEN TrimLeft(Tail(s)) ELSE s
RECURSIVE TrimRight(_)
TrimRight(s) ==
    IF s # <<>> /\ IsSpace(s[Len(s)]) THEN TrimRight(SubSeq(s, 1, Len(s) - 1))
    ELSE s
Trim(s) == TrimRight(TrimLeft(s))

\* String.prototype.match: null, or the capture group of the leftmost match
NoMatch == [matched |-> FALSE]

First(ms) ==
    IF ms = {} THEN NoMatch
    ELSE [matched |-> TRUE,
          group |-> (CHOOSE m \in ms : \A n \in ms : m.at <= n.at).group]

\* /\[download\]\s+(\d+\.?\d*)%/ : the captured lexeme
DownloadMatchAt(s, i) ==
    LET n == Spaces1(s, i + 1) IN
    /\ s[i] = "[download]"
    /\ n # 0 /\ n + 1 <= Len(s)
    /\ IsNumber(s[n]) /\ s[n + 1] = "%"

DownloadMatch(s) ==
    First({[at |-> i, group |-> s[Spaces1(s, i + 1)]] :
              i \in {k \in 1..Len(s) : DownloadMatchAt(s, k)}})

\* /\[download\]\s+[\d.]+%\s+of\s+~?\s*([\d.]+\w+)/
SizeStart(s, i) ==
    \* the index where ([\d.]+\w+) must start, or 0
    LET n == Spaces1(s, i + 1)
        o == IF n # 0 /\ n + 1 <= Len(s) /\ IsNumber(s[n]) /\ s[n + 1] = "%"
             THEN Spaces1(s, n + 2) ELSE 0
        t == IF o # 0 /\ o <= Len(s) /\ s[o] = "of" THEN Spaces1(s, o + 1) ELSE 0
    IN  IF t = 0 THEN 0
        ELSE IF t <= Len(s) /\ s[t] = "~" THEN SkipSpace(s, t + 1) ELSE t

SizeMatchAt(s, i) ==
    /\ s[i] = "[download]"
    /\ SizeStart(s, i) # 0 /\ SizeStart(s, i) <= Len(s)
    /\ IsSize(s[SizeStart(s, i)])

SizeMatch(s) ==
    First({[at |-> i, group |-> s[SizeStart(s, i)]] :
              i \in {k \in 1..Len(s) : SizeMatchAt(s, k)}})

\* /ETA\s+([\d:]+)/
EtaMatchAt(s, i) ==
    LET n == Spaces1(s, i + 1) IN
    s[i] = "ETA" /\ n # 0 /\ n <= Len(s) /\ IsTime(s[n])

EtaMatch(s) ==
    First({[at |-> i, group |-> s[Spaces1(s, i + 1)]] :
              i \in {k \in 1..Len(s) : EtaMatchAt(s, k)}})

\* /\[download\] Destination: (.+)/ : the captured tokens
DestMatchAt(s, i) ==
    /\ i + 4 <= Len(s)
    /\ SubSeq(s, i, i + 3) = <<"[download]", " ", "Destination:", " ">>
    /\ IsDot(s[i + 4])

DestMatch(s) ==
    First({[at |-> i, group |-> SubSeq(s, i + 4, LineEnd(s, i + 4))] :
              i \in {k \in 1..Len(s) : DestMatchAt(s, k)}})

\* /\[Merger\] Merging formats into "(.+)"/ : .+ is greedy, so the capture
\* ends before the last quote of the line
LastQuote(s, i) ==
    LET qs == {q \in (i + 2)..LineEnd(s, i) : s[q] = "\""} IN
    IF qs = {} THEN 0 ELSE CHOOSE q \in qs : \A r \in qs : r <= q

MergerMatchAt(s, i) == s[i] = MergerLit /\ LastQuote(s, i) # 0

MergerMatch(s) ==
    First({[at |-> i, group |-> SubSeq(s, i + 1, LastQuote(s, i) - 1)] :
              i \in {k \in 1..Len(s) : MergerMatchAt(s, k)}})

-----------------------------------------------------------------------------
(* Output chunks the external process may write *)

K_P10 == <<"[download]", " ", "10.0", "%", " ", "of", " ", "~", "50.00MiB",
           " ", "ETA", " ", "00:30">>
K_P100 == <<"[download]", " ", "100", "%", " ", "of", " ", "50.00MiB">>
K_DEST == <<"[download]", " ", "Destination:", " ", "/t/v.f137.mp4", "\n">>
K_MERGE == <<MergerLit, "/t/v.mp4", "\"", "\n">>
K_INFO == <<"[youtube]", " ", "Extracting", " ", "URL", "\n">>

Chunks == {K_P10, K_P100, K_DEST, K_MERGE, K_INFO}

\* the destination of the audio stream, and the chunks of the runs that
\* follow the name of the output file
K_DEST2 == <<"[download]", " ", "Destination:", " ", "/t/v.f140.m4a", "\n">>
FileChunks == {K_DEST, K_DEST2, K_MERGE, K_P10}
MergePath == <<"/t/v.mp4">>

\* a line that carries an ETA and no percentage, and the chunks of the runs
\* that look at the fields one by one
K_ETA == <<"[download]", " ", "Unknown", "%", " ", "ETA", " ", "00:05", "\n">>
FieldChunks == {K_ETA, K_P10, K_P100, K_DEST, K_INFO}

ExitCodes == {0, 1}
Urls == {Undefined, "", "https://v/1"}      \* req.body.url
Formats == {"137"}                          \* req.body.format_id

\* the message of an error thrown by mkdir or by spawn
MkdirErrors == {<<"ENOSPC: no space left on device, mkdir">>}
SpawnThrows == {<<"spawn E2BIG">>}

-----------------------------------------------------------------------------
(* The request handler of POST /v1/download *)

\* a validation that tests only for null
UrlMissingNullOnly(url) == url = "<null>"

\* if (!url)
UrlMissing(url) == url \in {Undefined, ""}

\* downloadedFile is tested for truthiness; "" is falsy
Truthy(f) == f # Null /\ f # <<>>

\* activeJobs.set(k, v), activeJobs.delete(k), {...activeJobs.get(k)}
MapSet(m, k, v) == (k :> v) @@ m
MapDelete(m, k) == [x \in DOMAIN m \ {k} |-> m[x]]
Spread(m, k) == IF k \in DOMAIN m THEN m[k] ELSE EmptyObject

NewJob(jobId, url, format_id) ==
    [jobId |-> jobId, status |-> "initializing", progress |-> 0,
     stage |-> <<"Starting download...">>, url |-> url, format_id |-> format_id]

\* JSON.stringify leaves out the properties whose value is undefined
Stringify(o) ==
    [k \in {x \in DOMAIN o : ~(x = "format_id" /\ o[x] = Undefined)} |-> o[k]]

\* a broadcast that returns after the first client it has sent to
BroadcastProgressFirstOnly(cl, jobId, progress) ==
    LET match == {c \in DOMAIN cl : /\ cl[c].readyState = "OPEN"
                                    /\ Has(cl[c], "jobId")
                                    /\ cl[c].jobId = jobId}
    IN  [c \in DOMAIN cl |->
            IF c \in match /\ \A d \in match : c <= d
            THEN [cl[c] EXCEPT !.sent = Append(@, Stringify(progress))]
            ELSE cl[c]]

\* broadcastProgress: the clients after the call
BroadcastProgress(cl, jobId, progress) ==
    [c \in DOMAIN cl |->
        IF cl[c].readyState = "OPEN" /\ Has(cl[c], "jobId") /\ cl[c].jobId = jobId
        THEN [cl[c] EXCEPT !.sent = Append(@, Stringify(progress))]
        ELSE cl[c]]

Emit(ev, jobId, progress) == [ev EXCEPT ![jobId] = Append(@, progress)]

\* no progress query has been answered yet
NoQuery == [jobId |-> 0, status |-> 0, body |-> EmptyObject]

\* a progress handler that answers 200 whatever activeJobs.get returns
QueryAnswerNoCheck(m, jobId) ==
    [jobId |-> jobId, status |-> 200, body |-> Stringify(Spread(m, jobId))]

\* const job = activeJobs.get(jobId); if (!job) return 404; res.json(job)
QueryAnswer(m, jobId) ==
    IF jobId \notin DOMAIN m
    THEN [jobId |-> jobId, status |-> 404, body |-> [error |-> "Job not found"]]
    ELSE [jobId |-> jobId, status |-> 200, body |-> Stringify(m[jobId])]

FreshResponse ==
    [statusCode |-> 200, headersSent |-> FALSE, headers |-> EmptyObject,
     body |-> "none", ended |-> FALSE]

\* if (!res.headersSent) res.status(500).json(...)
SendError(r) ==
    IF r.headersSent THEN r
    ELSE [r EXCEPT !.statusCode = 500, !.headersSent = TRUE,
                   !.body = "error-json", !.ended = TRUE]

\* the next value of downloadedFile after a chunk
\* a handler that keeps the first file name it has seen
NextDownloadedFileFirstWins(old, s) ==
    IF old # Null THEN old
    ELSE IF MergerMatch(s).matched THEN Trim(MergerMatch(s).group)
    ELSE IF DestMatch(s).matched THEN Trim(DestMatch(s).group) ELSE old

NextDownloadedFile(old, s) ==
    LET afterDest == IF DestMatch(s).matched THEN Trim(DestMatch(s).group) ELSE old
    IN  IF MergerMatch(s).matched THEN Trim(MergerMatch(s).group) ELSE afterDest

\* the jobUpdate object without Math.min
JobUpdateNoClamp(job, s) ==
    LET progress == ParseFloat(DownloadMatch(s).group)
        base == [status |-> "downloading",
                 progress |-> progress,
                 stage |-> <<"Downloading: ", ToFixed1(progress), "%">>] @@ job
        sized == IF SizeMatch(s).matched
                 THEN [totalSize |-> SizeMatch(s).group] @@ base ELSE base
    IN  IF EtaMatch(s).matched THEN [eta |-> EtaMatch(s).group] @@ sized ELSE sized

\* the jobUpdate object built from a chunk that holds a percentage
JobUpdate(job, s) ==
    LET progress == ParseFloat(DownloadMatch(s).group)
        base == [status |-> "downloading",
                 progress |-> Min(progress, 990),
                 stage |-> <<"Downloading: ", ToFixed1(progress), "%">>] @@ job
        sized == IF SizeMatch(s).matched
                 THEN [totalSize |-> SizeMatch(s).group] @@ base ELSE base
    IN  IF EtaMatch(s).matched THEN [eta |-> EtaMatch(s).group] @@ sized ELSE sized

\* the job marked completed as soon as the download is over
StreamingUpdateAsCompleted(job) ==
    [status |-> "completed", progress |-> 1000,
     stage |-> <<"Sending to browser...">>] @@ job

StreamingUpdate(job) ==
    [status |-> "streaming", progress |-> 1000,
     stage |-> <<"Sending to browser...">>] @@ job

CompletedUpdate(job) ==
    [status |-> "completed", progress |-> 1000,
     stage |-> <<"Download complete!">>] @@ job

\* the failure recorded without its description
ExitFailedUpdateNoError(job, code) ==
    [status |-> "failed", stage |-> <<"Download failed">>] @@ job

ExitFailedUpdate(job, code) ==
    [status |-> "failed", stage |-> <<"Download failed">>,
     error |-> <<"yt-dlp exited with code ", code>>] @@ job

CatchFailedUpdate(job, message) ==
    [status |-> "failed", stage |-> <<"Failed">>, error |-> message] @@ job

IsTerminal(job) == Has(job, "status") /\ job.status \in {"completed", "failed"}

Created == {j \in DOMAIN pc : pc[j] # "idle"}

-----------------------------------------------------------------------------
(* DownloadManager (utils/downloadManager.js).  A job is known by the number *)
(* of the addToQueue call that submitted it; its jobId is a property.        *)

DefaultMaxConcurrent == 5

\* process.env.MAX_CONCURRENT_DOWNLOADS: unset, or a number of slots
Envs == {Undefined, "1", "2"}

\* parseInt(env), NaN written 0
ParseInt(env) == IF env = "1" THEN 1 ELSE IF env = "2" THEN 2 ELSE 0

\* parseInt(process.env.MAX_CONCURRENT_DOWNLOADS) || 5
EnvMaxConcurrent(env) ==
    IF ParseInt(env) # 0 THEN ParseInt(env) ELSE DefaultMaxConcurrent

DmJobIds == 1..MaxSubmits          \* job.jobId
ExecKinds == {"async", "throws"}   \* execute() returns a promise, or throws
Outcomes == {"resolve", "reject", "rejectUndefined"}

\* a limit check that lets one job too many through
SlotsFullOffByOne(size, max) == size > max

\* this.activeDownloads.size >= this.maxConcurrentDownloads
SlotsFull(size, max) == size >= max

\* a queue that hands out the job added last
QueuePop(q) == [job |-> q[Len(q)], rest |-> SubSeq(q, 1, Len(q) - 1)]

\* this.queue.shift()
QueueShift(q) == [job |-> Head(q), rest |-> Tail(q)]

\* the state of the manager as one value
DmState == [queue |-> dmQueue, active |-> dmActive, jobs |-> dmJobs,
            started |-> dmStarted]

\* a catch block that leaves the job in activeDownloads
CatchNoDelete(st, n) ==
    [st EXCEPT !.jobs[n].state = "failed",
               !.jobs[n].events = Append(@, "failed")]

\* the catch block of processQueue: delete, then emit('failed', { jobId,
\* error: error.message }); reading .message of undefined is a TypeError
CatchDelete(st, n) ==
    [st EXCEPT !.active = MapDelete(@, st.jobs[n].jobId),
               !.jobs[n].state = "failed",
               !.jobs[n].events = Append(@, "failed")]

\* the catch block when execute() rejected with undefined: delete, then the
\* argument of emit throws a TypeError and processQueue rejects
CatchTypeError(st, n) ==
    [st EXCEPT !.active = MapDelete(@, st.jobs[n].jobId),
               !.jobs[n].state = "failed"]

\* processQueue(), up to its first pending await
RECURSIVE ProcessQueue(_, _)
ProcessQueue(max, st) ==
    IF SlotsFull(Cardinality(DOMAIN st.active), max) THEN st
    ELSE IF st.queue = <<>> THEN st
    ELSE LET n == QueueShift(st.queue).job
             begun == [queue |-> QueueShift(st.queue).rest,
                       active |-> MapSet(st.active, st.jobs[n].jobId, n),
                       jobs |-> [st.jobs EXCEPT ![n].state = "executing",
                                                ![n].events = Append(@, "started")],
                       started |-> Append(st.started, n)]
         IN  IF st.jobs[n].kind = "async"
             THEN begun
             ELSE ProcessQueue(max, CatchDelete(begun, n))

\* the promise of execute() settles: the rest of processQueue
AfterExecute(max, st, n, outcome) ==
    IF outcome = "resolve"
    THEN ProcessQueue(max, [st EXCEPT !.active = MapDelete(@, st.jobs[n].jobId),
                                      !.jobs[n].state = "completed",
                                      !.jobs[n].events = Append(@, "completed")])
    ELSE IF outcome = "reject"
    THEN ProcessQueue(max, CatchDelete(st, n))
    ELSE CatchTypeError(st, n)

\* getQueueStatus(); activeJobs as the set of the keys
GetQueueStatus ==
    [activeDownloads |-> Cardinality(DOMAIN dmActive),
     queuedDownloads |-> Len(dmQueue),
     maxConcurrent |-> dmMax,
     activeJobs |-> DOMAIN dmActive]

\* isJobActive(jobId)
IsJobActive(jobId) == jobId \in DOMAIN dmActive

NoStatus == [activeDownloads |-> 0, queuedDownloads |-> 0, maxConcurrent |-> 0,
             activeJobs |-> {}]

InitDm(max) ==
    /\ dmMax = max
    /\ dmQueue = <<>>
    /\ dmActive = EmptyObject
    /\ dmJobs = <<>>
    /\ dmStarted = <<>>
    /\ dmStatus = NoStatus

-----------------------------------------------------------------------------
(* The rate limiter (utils/security.js) *)

WindowMs == 60000

RlKeys == 1..MaxRlKeys
\* the values of Date.now() at which something happens: around one window
\* after the start and after the first millisecond
Times == {0, 1, 30000, 59999, 60000, 60001, MaxNow}

\* the rate limit of the keys that call the limiter on their own: key k may
\* make k calls per window
RateLimitOf(k) == k

\* a limit check that allows one call too many
OverLimitOffByOne(count, limit) == count > limit

\* recentRequests.length >= limit
OverLimit(count, limit) == count >= limit

\* requests.filter(timestamp => now - timestamp < windowMs)
Recent(requests, t) == SelectSeq(requests, LAMBDA ts : t - ts < WindowMs)

NaN == <<"NaN">>

\* a limiter that counts the calls it refuses as well
RefusedAndRecorded(store, apiKeyId, recentRequests, t) ==
    MapSet(store, apiKeyId, Append(recentRequests, t))

\* the store after a refused call: the branch returns before
\* rateLimitStore.set, so neither the pruned list nor the call is stored
Refused(store, apiKeyId, recentRequests, t) == store

\* checkRateLimit(apiKeyId, limit) at time t: the store afterwards and the
\* object returned
CheckRateLimit(store, apiKeyId, limit, t) ==
    LET held == IF apiKeyId \in DOMAIN store THEN store
                ELSE MapSet(store, apiKeyId, <<>>)
        recentRequests == Recent(held[apiKeyId], t)
    IN  IF OverLimit(Len(recentRequests), limit)
        THEN [store |-> Refused(held, apiKeyId, recentRequests, t), allowed |-> FALSE, remaining |-> 0,
              resetAt |-> IF recentRequests = <<>> THEN NaN
                          ELSE <<recentRequests[1] + WindowMs>>]
        ELSE [store |-> MapSet(held, apiKeyId, Append(recentRequests, t)),
              allowed |-> TRUE,
              remaining |-> limit - (Len(recentRequests) + 1),
              resetAt |-> <<t + WindowMs>>]

\* cleanupRateLimitStore(): the store afterwards
CleanupStore(store, t) ==
    LET kept == {k \in DOMAIN store : Recent(store[k], t) # <<>>}
    IN  [k \in kept |-> Recent(store[k], t)]

NoCall == [key |-> 0, allowed |-> FALSE, remaining |-> 0, n |-> 0]

InitRl ==
    /\ rateLimitStore = EmptyObject
    /\ now = 0
    /\ rlAllowed = EmptyObject
    /\ rlLast = NoCall

\* the call checkRateLimit(apiKeyId, limit) and what it leaves behind
RateLimited(apiKeyId, limit) ==
    LET result == CheckRateLimit(rateLimitStore, apiKeyId, limit, now) IN
    /\ rlLast.n < MaxCalls
    /\ rateLimitStore' = result.store
    /\ rlAllowed' = IF result.allowed
                    THEN MapSet(rlAllowed, apiKeyId,
                                Append(IF apiKeyId \in DOMAIN rlAllowed
                                       THEN rlAllowed[apiKeyId] ELSE <<>>, now))
                    ELSE rlAllowed
    /\ rlLast' = [key |-> apiKeyId, allowed |-> result.allowed,
                  remaining |-> result.remaining, n |-> rlLast.n + 1]
    /\ UNCHANGED now

-----------------------------------------------------------------------------
(* The api_keys table and the routes that write it *)

BootstrapRateLimit == 1000
DefaultRateLimit == 60

NoToken == 0                    \* no Authorization header
Tokens == 0..MaxKeys            \* the token that hashes to the key of row id
BootstrapIds == 1..MaxBootstraps

BodyLimits == {0, 2}            \* req.body.rateLimit: absent (falsy), or 2

\* the latest request that changed api_keys, whether it carried a valid key,
\* and whether any request has deleted keys so far
NoKeyRequest == [route |-> "none", valid |-> FALSE, deleted |-> FALSE]

AuthIds == 1..MaxAuth

NoMax == 0                      \* maxRequests: null (falsy, as 0 is)

\* a row as POST /v1/keys inserts it
QuotaRow(limit, max) ==
    [status |-> "active", rateLimit |-> limit, maxRequests |-> max,
     totalRequests |-> 0]

\* a row inserted without maxRequests in the body
KeyRow(limit) == QuotaRow(limit, NoMax)

\* the select of authenticateKey found no row
NoRow == [status |-> "none", rateLimit |-> 0, maxRequests |-> NoMax,
          totalRequests |-> 0]

\* matchedKey.maxRequests && matchedKey.totalRequests >= matchedKey.maxRequests
QuotaSpent(row) == row.maxRequests # NoMax /\ row.totalRequests >= row.maxRequests

\* UPDATE api_keys SET totalRequests = totalRequests + 1 WHERE id = :id
CountRequest(keys, id) ==
    IF id \in DOMAIN keys THEN [keys EXCEPT ![id].totalRequests = @ + 1] ELSE keys

\* a request that has not reached authenticateKey
NoAuth == [pc |-> "idle", token |-> NoToken, row |-> NoRow]

\* the closure of requestLoggerMiddleware before the middleware has run
NoLogger == [stage |-> "new", apiKeyId |-> 0, wrapped |-> FALSE, logged |-> FALSE,
             headersSent |-> FALSE, hooks |-> 0]

\* the token is the key of a stored row whose status is 'active'
ValidToken(token) ==
    /\ token \in DOMAIN apiKeys
    /\ apiKeys[token].status = "active"

\* authenticateKey calls next()
Passed(token) ==
    /\ ValidToken(token)
    /\ ~QuotaSpent(apiKeys[token])
    /\ CheckRateLimit(rateLimitStore, token, apiKeys[token].rateLimit, now).allowed

\* authenticateKey: 401 without token, 403 for an unknown or inactive key,
\* 429 for a spent quota, else checkRateLimit (429 when refused)
AuthenticateKey(token) ==
    IF ValidToken(token) /\ ~QuotaSpent(apiKeys[token])
    THEN RateLimited(token, apiKeys[token].rateLimit)
    ELSE UNCHANGED rlVars

InitKeys ==
    /\ apiKeys = EmptyObject
    /\ keySeq = 0
    /\ bootstrap = [r \in BootstrapIds |-> "idle"]
    /\ keyLog = NoKeyRequest
    /\ auth = [r \in AuthIds |-> NoAuth]
    /\ logger = [r \in AuthIds |-> NoLogger]

\* rateLimit and maxRequests of the key the requests of authenticateKey use
QuotaLimits == {1, 2}
Quotas == {NoMax, 1}

\* the key with id MaxKeys, as POST /v1/keys has inserted it
InitQuotaKey ==
    /\ \E limit \in QuotaLimits, max \in Quotas :
           apiKeys = (MaxKeys :> QuotaRow(limit, max))
    /\ keySeq = MaxKeys
    /\ bootstrap = [r \in BootstrapIds |-> "idle"]
    /\ keyLog = NoKeyRequest
    /\ auth = [r \in AuthIds |-> NoAuth]
    /\ logger = [r \in AuthIds |-> NoLogger]

\* the state of the three stores when the server has started
InitAux ==
    /\ InitDm(DefaultMaxConcurrent)
    /\ InitRl
    /\ InitKeys

Init ==
    /\ activeJobs = EmptyObject
    /\ pc = [j \in JobIds |-> "idle"]
    /\ downloadedFile = [j \in JobIds |-> Null]
    /\ exitCode = EmptyObject
    /\ chunksSeen = 0
    /\ tempDirs = {}
    /\ rmPending = {}
    /\ rmErrors = {}
    /\ rmCount = [j \in JobIds |-> 0]
    /\ res = [j \in JobIds |-> FreshResponse]
    /\ lastReq = [url |-> Undefined, answer |-> "none"]
    /\ lastQuery = NoQuery
    /\ wsEvents = 0
    /\ InitAux
    /\ timers = EmptyObject
    /\ termAge = EmptyObject
    /\ events = [j \in JobIds |-> <<>>]
    /\ clients = EmptyObject
    /\ serverUp = TRUE

\* the same, with WebSocket clients that may connect
\* the server part of Init: no request has arrived
InitServer ==
    /\ activeJobs = EmptyObject
    /\ pc = [j \in JobIds |-> "idle"]
    /\ downloadedFile = [j \in JobIds |-> Null]
    /\ exitCode = EmptyObject
    /\ chunksSeen = 0
    /\ tempDirs = {}
    /\ rmPending = {}
    /\ rmErrors = {}
    /\ rmCount = [j \in JobIds |-> 0]
    /\ res = [j \in JobIds |-> FreshResponse]
    /\ lastReq = [url |-> Undefined, answer |-> "none"]
    /\ lastQuery = NoQuery
    /\ wsEvents = 0
    /\ timers = EmptyObject
    /\ termAge = EmptyObject
    /\ events = [j \in JobIds |-> <<>>]
    /\ clients = EmptyObject
    /\ serverUp = TRUE

\* the server with one stored API key
InitAuth ==
    /\ InitServer
    /\ InitDm(DefaultMaxConcurrent)
    /\ InitRl
    /\ InitQuotaKey

\* a DownloadManager constructed with any number of slots
InitDM ==
    /\ InitServer
    /\ \E max \in 1..MaxSlots : InitDm(max)
    /\ InitRl
    /\ InitKeys

\* the server started with MAX_CONCURRENT_DOWNLOADS set or unset, and room
\* for one download request more than the other runs have
InitGate ==
    /\ activeJobs = EmptyObject
    /\ pc = [j \in GateIds |-> "idle"]
    /\ downloadedFile = [j \in GateIds |-> Null]
    /\ exitCode = EmptyObject
    /\ chunksSeen = 0
    /\ tempDirs = {}
    /\ rmPending = {}
    /\ rmErrors = {}
    /\ rmCount = [j \in GateIds |-> 0]
    /\ res = [j \in GateIds |-> FreshResponse]
    /\ lastReq = [url |-> Undefined, answer |-> "none"]
    /\ lastQuery = NoQuery
    /\ wsEvents = 0
    /\ \E env \in Envs : InitDm(EnvMaxConcurrent(env))
    /\ InitRl
    /\ InitKeys
    /\ timers = EmptyObject
    /\ termAge = EmptyObject
    /\ events = [j \in GateIds |-> <<>>]
    /\ clients = EmptyObject
    /\ serverUp = TRUE

\* the server started with the default number of slots and room for one
\* download request more than the other runs have
InitFrame == InitGate /\ dmMax = DefaultMaxConcurrent

InitWS ==
    /\ activeJobs = EmptyObject
    /\ pc = [j \in JobIds |-> "idle"]
    /\ downloadedFile = [j \in JobIds |-> Null]
    /\ exitCode = EmptyObject
    /\ chunksSeen = 0
    /\ tempDirs = {}
    /\ rmPending = {}
    /\ rmErrors = {}
    /\ rmCount = [j \in JobIds |-> 0]
    /\ res = [j \in JobIds |-> FreshResponse]
    /\ lastReq = [url |-> Undefined, answer |-> "none"]
    /\ lastQuery = NoQuery
    /\ wsEvents = 0
    /\ InitAux
    /\ timers = EmptyObject
    /\ termAge = EmptyObject
    /\ events = [j \in JobIds |-> <<>>]
    /\ clients = [c \in ClientIds |-> [readyState |-> "NONE", sent |-> <<>>]]
    /\ serverUp = TRUE

\* POST /v1/download: 400 without a url, else up to the await of mkdir
PostDownload(url, format_id) ==
    LET jobId == Cardinality(Created) + 1 IN
    /\ serverUp
    /\ IF UrlMissing(url)
       THEN /\ lastReq' = [url |-> url, answer |-> "400"]
            /\ UNCHANGED <<activeJobs, pc>>
       ELSE /\ jobId \in DOMAIN pc
            /\ activeJobs' = MapSet(activeJobs, jobId, NewJob(jobId, url, format_id))
            /\ pc' = [pc EXCEPT ![jobId] = "mkdir"]
            /\ lastReq' = [url |-> url, answer |-> "accepted"]
    /\ UNCHANGED <<downloadedFile, exitCode, chunksSeen, fsVars, res, lastQuery,
                   timeVars, events, clients, wsEvents, auxVars, serverUp>>

\* a handler that leaves the temporary directory where it is
CleanupSkipped(pending, jobId) == pending

\* a cleanup that removes the whole temp folder, every job's directory
CleanupEveryDir(pending, jobId) == pending \cup tempDirs \cup {jobId}

\* fs.rm(tempDir, { recursive: true, force: true }, () => {}) is called: the
\* removal is handed to the thread pool and the handler goes on
Cleanup(pending, jobId) == pending \cup {jobId}

\* the catch block of the handler, run on the clients cl and the log ev
CatchBlock(jobId, message, cl, ev) ==
    LET failed == CatchFailedUpdate(Spread(activeJobs, jobId), message) IN
    /\ res' = [res EXCEPT ![jobId] = SendError(@)]
    /\ activeJobs' = MapSet(activeJobs, jobId, failed)
    /\ clients' = BroadcastProgress(cl, jobId, failed)
    /\ events' = Emit(ev, jobId, failed)
    /\ rmPending' = Cleanup(rmPending, jobId)
    /\ termAge' = MapSet(termAge, jobId, 0)
    /\ pc' = [pc EXCEPT ![jobId] = "caught"]

\* mkdir rejects: the catch block runs
MkdirFail(jobId, message) ==
    /\ serverUp
    /\ pc[jobId] = "mkdir"
    /\ CatchBlock(jobId, message, clients, events)
    /\ UNCHANGED <<downloadedFile, exitCode, chunksSeen, tempDirs, rmLog, reqVars, timers,
                   serverUp>>

\* mkdir resolves: initial broadcast, then spawn() returns a child process
MkdirThenSpawn(jobId, asyncError) ==
    /\ serverUp
    /\ pc[jobId] = "mkdir"
    /\ tempDirs' = tempDirs \cup {jobId}
    /\ clients' = BroadcastProgress(clients, jobId, activeJobs[jobId])
    /\ events' = Emit(events, jobId, activeJobs[jobId])
    /\ pc' = [pc EXCEPT ![jobId] = IF asyncError THEN "spawnerr" ELSE "running"]
    /\ UNCHANGED <<activeJobs, downloadedFile, exitCode, chunksSeen, rmPending, rmLog, res,
                   reqVars, timeVars, serverUp>>

\* mkdir resolves: initial broadcast, then spawn() throws: the catch block runs
MkdirThenSpawnThrows(jobId, message) ==
    /\ serverUp
    /\ pc[jobId] = "mkdir"
    /\ tempDirs' = tempDirs \cup {jobId}
    /\ CatchBlock(jobId, message,
                  BroadcastProgress(clients, jobId, activeJobs[jobId]),
                  Emit(events, jobId, activeJobs[jobId]))
    /\ UNCHANGED <<downloadedFile, exitCode, chunksSeen, rmLog, reqVars, timers,
                   serverUp>>

\* the child process emits 'error' (ENOENT, EACCES, EAGAIN, EMFILE); ytdlp has
\* no 'error' listener, so emit throws and the process dies
SpawnErrorEvent(jobId) ==
    /\ serverUp
    /\ pc[jobId] = "spawnerr"
    /\ pc' = [pc EXCEPT ![jobId] = "uncaught"]
    /\ serverUp' = FALSE
    /\ UNCHANGED <<activeJobs, downloadedFile, exitCode, chunksSeen, fsVars, res,
                   reqVars, timeVars, events, clients>>

\* a handler that broadcasts the stored entry again for a chunk it ignores
RebroadcastChunk(jobId) ==
    /\ activeJobs' = activeJobs
    /\ clients' = BroadcastProgress(clients, jobId, Spread(activeJobs, jobId))
    /\ events' = Emit(events, jobId, Spread(activeJobs, jobId))

\* if (downloadMatch) has no else: nothing is stored or broadcast
IgnoreChunk(jobId) == UNCHANGED <<activeJobs, clients, events>>

\* the body of if (downloadMatch): the registry update and its broadcast
UpdateProgress(jobId, s) ==
    LET jobUpdate == JobUpdate(Spread(activeJobs, jobId), s) IN
    /\ activeJobs' = MapSet(activeJobs, jobId, jobUpdate)
    /\ clients' = BroadcastProgress(clients, jobId, jobUpdate)
    /\ events' = Emit(events, jobId, jobUpdate)

\* ytdlp.stdout.on('data'), the limit-th chunk at the latest
StdoutData(jobId, s, limit) ==
    /\ serverUp
    /\ pc[jobId] = "running"
    /\ chunksSeen < limit
    /\ chunksSeen' = chunksSeen + 1
    /\ downloadedFile' =
           [downloadedFile EXCEPT ![jobId] = NextDownloadedFile(@, s)]
    /\ IF DownloadMatch(s).matched
       THEN UpdateProgress(jobId, s)
       ELSE IgnoreChunk(jobId)
    /\ UNCHANGED <<pc, exitCode, fsVars, res, reqVars, timeVars, serverUp>>

\* the registry update of the 'data' handler, addressed to an id that has no
\* entry in activeJobs
StaleUpdate(jobId, s) ==
    /\ serverUp
    /\ jobId \notin DOMAIN activeJobs
    /\ DownloadMatch(s).matched
    /\ UpdateProgress(jobId, s)
    /\ UNCHANGED <<pc, downloadedFile, exitCode, chunksSeen, fsVars, res, reqVars,
                   timeVars, serverUp>>

\* ytdlp.on('close'), up to the await of stat or to the end of the else branch
Close(jobId, code) ==
    /\ serverUp
    /\ pc[jobId] = "running"
    /\ exitCode' = MapSet(exitCode, jobId, code)
    /\ IF code = 0 /\ Truthy(downloadedFile[jobId])
       THEN LET streaming == StreamingUpdate(Spread(activeJobs, jobId)) IN
            /\ activeJobs' = MapSet(activeJobs, jobId, streaming)
            /\ clients' = BroadcastProgress(clients, jobId, streaming)
            /\ events' = Emit(events, jobId, streaming)
            /\ pc' = [pc EXCEPT ![jobId] = "stat"]
            /\ UNCHANGED <<res, rmPending, termAge>>
       ELSE LET failed == ExitFailedUpdate(Spread(activeJobs, jobId), code) IN
            /\ res' = [res EXCEPT ![jobId] = SendError(@)]
            /\ activeJobs' = MapSet(activeJobs, jobId, failed)
            /\ clients' = BroadcastProgress(clients, jobId, failed)
            /\ events' = Emit(events, jobId, failed)
            /\ rmPending' = Cleanup(rmPending, jobId)
            /\ termAge' = MapSet(termAge, jobId, 0)
            /\ pc' = [pc EXCEPT ![jobId] = "exited"]
    /\ UNCHANGED <<downloadedFile, chunksSeen, tempDirs, rmLog, reqVars, timers, serverUp>>

\* stat resolves: headers, createReadStream, pipe, the stream listeners
StatOk(jobId) ==
    /\ serverUp
    /\ pc[jobId] = "stat"
    /\ res' = [res EXCEPT ![jobId].headers =
                   [n \in {"Content-Type", "X-Job-ID"} |->
                       IF n = "X-Job-ID" THEN jobId ELSE "video/mp4"] @@ @]
    /\ pc' = [pc EXCEPT ![jobId] = "piping"]
    /\ UNCHANGED <<activeJobs, downloadedFile, exitCode, chunksSeen, fsVars, reqVars,
                   timeVars, events, clients, serverUp>>

\* stat rejects: the inner catch block
StatFail(jobId) ==
    /\ serverUp
    /\ pc[jobId] = "stat"
    /\ res' = [res EXCEPT ![jobId] = SendError(@)]
    /\ rmPending' = Cleanup(rmPending, jobId)
    /\ pc' = [pc EXCEPT ![jobId] = "statfailed"]
    /\ UNCHANGED <<activeJobs, downloadedFile, exitCode, chunksSeen, tempDirs, rmLog, reqVars,
                   timeVars, events, clients, serverUp>>

\* the first bytes of the file are written to the response
PipeData(jobId) ==
    /\ serverUp
    /\ pc[jobId] = "piping"
    /\ ~res[jobId].headersSent
    /\ res' = [res EXCEPT ![jobId].headersSent = TRUE, ![jobId].body = "file-partial"]
    /\ UNCHANGED <<jobVars, fsVars, reqVars, timeVars, events, clients, serverUp>>

\* fileStream.on('end'); pipe has ended the response
PipeEnd(jobId) ==
    LET completed == CompletedUpdate(Spread(activeJobs, jobId)) IN
    /\ serverUp
    /\ pc[jobId] = "piping"
    /\ res' = [res EXCEPT ![jobId].headersSent = TRUE, ![jobId].body = "file",
                          ![jobId].ended = TRUE]
    /\ activeJobs' = MapSet(activeJobs, jobId, completed)
    /\ clients' = BroadcastProgress(clients, jobId, completed)
    /\ events' = Emit(events, jobId, completed)
    /\ rmPending' = Cleanup(rmPending, jobId)
    /\ timers' = MapSet(timers, jobId, RETENTION_MS)
    /\ termAge' = MapSet(termAge, jobId, 0)
    /\ pc' = [pc EXCEPT ![jobId] = "ended"]
    /\ UNCHANGED <<downloadedFile, exitCode, chunksSeen, tempDirs, rmLog, reqVars, serverUp>>

\* fileStream.on('error')
PipeError(jobId) ==
    /\ serverUp
    /\ pc[jobId] = "piping"
    /\ rmPending' = Cleanup(rmPending, jobId)
    /\ pc' = [pc EXCEPT ![jobId] = "streamfailed"]
    /\ UNCHANGED <<activeJobs, downloadedFile, exitCode, chunksSeen, tempDirs, rmLog, res,
                   reqVars, timeVars, events, clients, serverUp>>

\* the requester closes the connection: pipe unpipes and pauses the stream,
\* which emits neither 'end' nor 'error' afterwards
ClientAbort(jobId) ==
    /\ serverUp
    /\ pc[jobId] = "piping"
    /\ pc' = [pc EXCEPT ![jobId] = "stalled"]
    /\ UNCHANGED <<activeJobs, downloadedFile, exitCode, chunksSeen, fsVars, res,
                   reqVars, timeVars, events, clients, serverUp>>

\* fs.rm without force: a path that does not exist is an ENOENT error
FsRmNoForce(dirs, d) ==
    [dirs |-> dirs \ {d}, err |-> d \notin dirs]

\* fs.rm(path, { recursive: true, force: true }) on the directories dirs:
\* the tree is removed, and with force a path that does not exist is no error
FsRm(dirs, d) ==
    [dirs |-> dirs \ {d}, err |-> FALSE]

\* fs.rm(tempDir, { recursive: true, force: true }, () => {}) finishes and its
\* callback runs
RmDone(jobId) ==
    LET done == FsRm(tempDirs, jobId) IN
    /\ serverUp
    /\ jobId \in rmPending
    /\ rmPending' = rmPending \ {jobId}
    /\ tempDirs' = done.dirs
    /\ rmErrors' = IF done.err THEN rmErrors \cup {jobId} ELSE rmErrors
    /\ rmCount' = [rmCount EXCEPT ![jobId] = @ + 1]
    /\ UNCHANGED <<jobVars, res, reqVars, timeVars, events, clients, serverUp>>

\* the cleanup statement of the handlers, run once more for a job whose
\* cleanup has already finished
CleanupAgain(jobId) ==
    /\ serverUp
    /\ rmCount[jobId] = 1
    /\ jobId \notin rmPending
    /\ rmPending' = Cleanup(rmPending, jobId)
    /\ UNCHANGED <<jobVars, tempDirs, rmLog, res, reqVars, timeVars, events, clients,
                   serverUp>>

\* a timer callback that marks the entry instead of deleting it
EvictMarksExpired(jobId) ==
    /\ serverUp
    /\ jobId \in DOMAIN timers
    /\ timers[jobId] = 0
    /\ activeJobs' = MapSet(activeJobs, jobId,
                            [stage |-> <<"Expired">>] @@ Spread(activeJobs, jobId))
    /\ timers' = MapDelete(timers, jobId)
    /\ UNCHANGED <<pc, downloadedFile, exitCode, chunksSeen, fsVars, res, reqVars,
                   termAge, events, clients, serverUp>>

\* setTimeout(() => activeJobs.delete(jobId), 5 * 60 * 1000) fires
Evict(jobId) ==
    /\ serverUp
    /\ jobId \in DOMAIN timers
    /\ timers[jobId] = 0
    /\ activeJobs' = MapDelete(activeJobs, jobId)
    /\ timers' = MapDelete(timers, jobId)
    /\ UNCHANGED <<pc, downloadedFile, exitCode, chunksSeen, fsVars, res, reqVars,
                   termAge, events, clients, serverUp>>

\* no answer of the progress endpoint is on its way out
Quiet == lastQuery = NoQuery

\* GET /v1/download/progress/:jobId
GetProgress(jobId) ==
    /\ serverUp
    /\ Quiet
    /\ lastQuery' = QueryAnswer(activeJobs, jobId)
    /\ UNCHANGED <<jobVars, fsVars, res, lastReq, timeVars, events, clients, wsEvents,
                   auxVars, serverUp>>

\* the answer of the progress endpoint has been written to the socket
QueryDone ==
    /\ ~Quiet
    /\ lastQuery' = NoQuery
    /\ UNCHANGED <<jobVars, fsVars, res, lastReq, timeVars, events, clients, wsEvents,
                   auxVars, serverUp>>

\* time passes, at most up to the next timer that is due
AgeCap == RETENTION_MS + TickMs

Tick ==
    LET left == {timers[j] : j \in DOMAIN timers}
        step == IF \E t \in left : t < TickMs
                THEN CHOOSE t \in left : \A u \in left : t <= u
                ELSE TickMs
    IN
    /\ serverUp
    /\ step > 0
    /\ \E j \in DOMAIN termAge : termAge[j] < AgeCap
    /\ timers' = [j \in DOMAIN timers |-> timers[j] - step]
    /\ termAge' = [j \in DOMAIN termAge |-> Min(termAge[j] + step, AgeCap)]
    /\ UNCHANGED <<jobVars, fsVars, res, reqVars, events, clients, serverUp>>

-----------------------------------------------------------------------------
(* The WebSocket server *)

\* wss.on('connection')
Connect(c) ==
    /\ serverUp
    /\ clients[c].readyState = "NONE"
    /\ \A d \in ClientIds : d < c => clients[d].readyState # "NONE"
    /\ clients' = [clients EXCEPT ![c].readyState = "OPEN"]
    /\ wsEvents < MaxWsEvents
    /\ wsEvents' = wsEvents + 1
    /\ UNCHANGED auxVars
    /\ UNCHANGED <<jobVars, fsVars, res, lastReq, lastQuery, timeVars, events, serverUp>>

\* a subscribe handler that also sends the stored snapshot of the job
SubscribeReplays(c, jobId) ==
    /\ serverUp
    /\ clients[c].readyState = "OPEN"
    /\ clients' = [clients EXCEPT ![c] =
                       [jobId |-> jobId] @@
                       [@ EXCEPT !.sent = IF jobId \in DOMAIN activeJobs
                                          THEN Append(@, Stringify(activeJobs[jobId]))
                                          ELSE @]]
    /\ clients' # clients
    /\ wsEvents < MaxWsEvents
    /\ wsEvents' = wsEvents + 1
    /\ UNCHANGED auxVars
    /\ UNCHANGED <<jobVars, fsVars, res, lastReq, lastQuery, timeVars, events, serverUp>>

\* ws.on('message') with { type: 'subscribe', jobId }
Subscribe(c, jobId) ==
    /\ serverUp
    /\ clients[c].readyState = "OPEN"
    /\ clients' = [clients EXCEPT ![c] = [jobId |-> jobId] @@ @]
    /\ clients' # clients
    /\ wsEvents < MaxWsEvents
    /\ wsEvents' = wsEvents + 1
    /\ UNCHANGED auxVars
    /\ UNCHANGED <<jobVars, fsVars, res, lastReq, lastQuery, timeVars, events, serverUp>>

\* ws.on('close')
\* texts a client may send: a subscribe to job id j, a subscribe without
\* jobId, another type of message, the JSON null, and no JSON at all
SubscribeText(j) == <<"{\"type\":\"subscribe\",\"jobId\":", j, "}">>
PingText(j) == <<"{\"type\":\"ping\",\"jobId\":", j, "}">>
NoIdText == <<"{\"type\":\"subscribe\"}">>
NullText == <<"null">>
BadText == <<"subscribe please">>
SubIds == JobIds \cup {MaxJobs + 1}
Texts ==
    {SubscribeText(j) : j \in SubIds} \cup {PingText(j) : j \in SubIds}
    \cup {NoIdText, NullText, BadText}

\* JSON.parse(message): a SyntaxError thrown, the value null, or an object
JsonParse(text) ==
    IF text = BadText THEN [threw |-> TRUE, null |-> FALSE, value |-> EmptyObject]
    ELSE IF text = NullText
    THEN [threw |-> FALSE, null |-> TRUE, value |-> EmptyObject]
    ELSE IF text = NoIdText
    THEN [threw |-> FALSE, null |-> FALSE, value |-> [type |-> "subscribe"]]
    ELSE [threw |-> FALSE, null |-> FALSE,
          value |-> [type |-> IF text[1] = SubscribeText(0)[1]
                              THEN "subscribe" ELSE "ping",
                     jobId |-> text[2]]]

\* a handler that takes the jobId of any message that has one
AcceptsAnyType(data) == Has(data, "jobId") /\ data.jobId # 0

\* data.type === 'subscribe' && data.jobId
Accepts(data) ==
    /\ Has(data, "type") /\ data.type = "subscribe"
    /\ Has(data, "jobId") /\ data.jobId # 0

\* ws.on('message'): ws.jobId is set by a subscribe message with a jobId;
\* a text that does not parse, or null (reading .type throws), is caught
OnMessage(c, text) ==
    LET parsed == JsonParse(text) IN
    /\ serverUp
    /\ clients[c].readyState = "OPEN"
    /\ IF ~parsed.threw /\ ~parsed.null /\ Accepts(parsed.value)
       THEN clients' = [clients EXCEPT ![c] = [jobId |-> parsed.value.jobId] @@ @]
       ELSE clients' = clients
    /\ wsEvents < MaxWsEvents
    /\ wsEvents' = wsEvents + 1
    /\ UNCHANGED auxVars
    /\ UNCHANGED <<jobVars, fsVars, res, lastReq, lastQuery, timeVars, events, serverUp>>

Disconnect(c) ==
    /\ serverUp
    /\ clients[c].readyState = "OPEN"
    /\ clients' = [clients EXCEPT ![c].readyState = "CLOSED"]
    /\ wsEvents < MaxWsEvents
    /\ wsEvents' = wsEvents + 1
    /\ UNCHANGED auxVars
    /\ UNCHANGED <<jobVars, fsVars, res, lastReq, lastQuery, timeVars, events, serverUp>>

-----------------------------------------------------------------------------

Next ==
    \/ \E url \in Urls, f \in Formats : PostDownload(url, f)
    \/ \E j \in JobIds, m \in MkdirErrors : MkdirFail(j, m)
    \/ \E j \in JobIds, e \in BOOLEAN : MkdirThenSpawn(j, e)
    \/ \E j \in JobIds, m \in SpawnThrows : MkdirThenSpawnThrows(j, m)
    \/ \E j \in JobIds : SpawnErrorEvent(j)
    \/ \E j \in JobIds, s \in Chunks : StdoutData(j, s, MaxChunks)
    \/ \E j \in JobIds, code \in ExitCodes : Close(j, code)
    \/ \E j \in JobIds : StatOk(j)
    \/ \E j \in JobIds : StatFail(j)
    \/ \E j \in JobIds : PipeData(j)
    \/ \E j \in JobIds : PipeEnd(j)
    \/ \E j \in JobIds : PipeError(j)
    \/ \E j \in JobIds : ClientAbort(j)
    \/ \E j \in JobIds : RmDone(j)
    \/ \E j \in JobIds : Evict(j)
    \/ Tick

\* the output the WebSocket runs feed the parser: a percentage line and a
\* Destination line
WsChunks == {K_P10, K_DEST}

\* the WebSocket handlers, with the download handlers on the way from the
\* request to completed or to a failed exit, all of which broadcast
NextWS ==
    \/ \E f \in Formats : PostDownload("https://v/1", f)
    \/ \E j \in JobIds : MkdirThenSpawn(j, FALSE)
    \/ \E j \in JobIds, s \in WsChunks : StdoutData(j, s, MaxChunks - 1)
    \/ \E j \in JobIds, code \in ExitCodes : Close(j, code)
    \/ \E j \in JobIds : StatOk(j)
    \/ \E j \in JobIds : PipeEnd(j)
    \/ \E c \in ClientIds : Connect(c)
    \/ \E c \in ClientIds, j \in JobIds : Subscribe(c, j)
    \/ \E c \in ClientIds : Disconnect(c)

\* the ids a progress query may name: every job id and one never handed out
QueryIds == JobIds \cup {MaxJobs + 1}

\* the server with its progress endpoint; the handler answers within one turn
\* of the event loop, so no other handler runs before its answer has left
\* addToQueue(downloadJob): push, then processQueue()
AddToQueue(jobId, kind) ==
    LET n == Len(dmJobs) + 1
        pushed == [DmState EXCEPT
                      !.queue = Append(@, n),
                      !.jobs = Append(@, [jobId |-> jobId, kind |-> kind,
                                          state |-> "queued",
                                          events |-> <<"queued">>])]
        after == ProcessQueue(dmMax, pushed)
    IN  /\ Len(dmJobs) < MaxSubmits
        /\ dmQueue' = after.queue
        /\ dmActive' = after.active
        /\ dmJobs' = after.jobs
        /\ dmStarted' = after.started
        /\ dmStatus' = NoStatus
        /\ UNCHANGED <<dmMax, serverVars, rlVars, keyVars>>

\* the promise returned by execute() of the n-th job settles
Settle(n, outcome) ==
    LET after == AfterExecute(dmMax, DmState, n, outcome) IN
    /\ n \in 1..Len(dmJobs)
    /\ dmJobs[n].state = "executing"
    /\ dmQueue' = after.queue
    /\ dmActive' = after.active
    /\ dmJobs' = after.jobs
    /\ dmStarted' = after.started
    /\ dmStatus' = NoStatus
    /\ UNCHANGED <<dmMax, serverVars, rlVars, keyVars>>

\* a caller reads getQueueStatus()
QueryQueueStatus ==
    /\ dmStatus # GetQueueStatus
    /\ dmStatus' = GetQueueStatus
    /\ UNCHANGED <<dmMax, dmQueue, dmActive, dmJobs, dmStarted, serverVars,
                   rlVars, keyVars>>

NextDM ==
    \/ \E jobId \in DmJobIds, kind \in ExecKinds : AddToQueue(jobId, kind)
    \/ \E n \in 1..MaxSubmits, o \in Outcomes : Settle(n, o)
    \/ QueryQueueStatus

\* a request of key k reaches checkRateLimit(k, limit of k)
RateLimitCall(k) ==
    /\ RateLimited(k, RateLimitOf(k))
    /\ UNCHANGED <<serverVars, dmVars, keyVars>>

\* Date.now() moves on
AdvanceClock(t) ==
    /\ t > now
    /\ now' = t
    /\ UNCHANGED <<rateLimitStore, rlAllowed, rlLast, serverVars, dmVars, keyVars>>

\* the setInterval callback cleanupRateLimitStore
CleanupRateLimitStore ==
    /\ rateLimitStore' = CleanupStore(rateLimitStore, now)
    /\ rateLimitStore' # rateLimitStore
    /\ UNCHANGED <<now, rlAllowed, rlLast, serverVars, dmVars, keyVars>>

NextRate ==
    \/ \E k \in RlKeys : RateLimitCall(k)
    \/ \E t \in Times : AdvanceClock(t)
    \/ CleanupRateLimitStore

\* DELETE /v1/keys/all: no authenticateKey
DeleteAllKeys(token) ==
    /\ apiKeys # EmptyObject
    /\ apiKeys' = EmptyObject
    /\ keyLog' = [route |-> "deleteAll", valid |-> ValidToken(token),
                  deleted |-> TRUE]
    /\ UNCHANGED <<keySeq, bootstrap, auth, logger, serverVars, dmVars, rlVars>>

\* POST /v1/keys/bootstrap up to its first await: the select and the 403
BootstrapSelect(r) ==
    /\ bootstrap[r] = "idle"
    /\ bootstrap' = [bootstrap EXCEPT
                        ![r] = IF apiKeys # EmptyObject THEN "403" ELSE "selected"]
    /\ UNCHANGED <<apiKeys, keySeq, keyLog, auth, logger, serverVars, dmVars, rlVars>>

\* POST /v1/keys/bootstrap after the select: the insert and the 201
BootstrapInsert(r) ==
    /\ bootstrap[r] = "selected"
    /\ keySeq < MaxKeys
    /\ apiKeys' = MapSet(apiKeys, keySeq + 1, KeyRow(BootstrapRateLimit))
    /\ keySeq' = keySeq + 1
    /\ bootstrap' = [bootstrap EXCEPT ![r] = "201"]
    /\ keyLog' = [keyLog EXCEPT !.route = "bootstrap", !.valid = FALSE]
    /\ UNCHANGED <<auth, logger, serverVars, dmVars, rlVars>>

\* POST /v1/keys with authenticateKey
CreateKey(token, limit) ==
    /\ keySeq < MaxKeys
    /\ AuthenticateKey(token)
    /\ IF Passed(token)
       THEN /\ apiKeys' = MapSet(CountRequest(apiKeys, token), keySeq + 1,
                                 KeyRow(IF limit # 0 THEN limit ELSE DefaultRateLimit))
            /\ keySeq' = keySeq + 1
            /\ keyLog' = [keyLog EXCEPT !.route = "create", !.valid = TRUE]
       ELSE UNCHANGED <<apiKeys, keySeq, keyLog>>
    /\ UNCHANGED <<bootstrap, auth, logger, serverVars, dmVars>>

\* DELETE /v1/keys/:id with authenticateKey; 404 for an id not stored
DeleteKey(token, id) ==
    /\ AuthenticateKey(token)
    /\ IF Passed(token) /\ id \in DOMAIN apiKeys
       THEN /\ apiKeys' = MapDelete(CountRequest(apiKeys, token), id)
            /\ keyLog' = [route |-> "delete", valid |-> TRUE, deleted |-> TRUE]
       ELSE /\ apiKeys' = IF Passed(token) THEN CountRequest(apiKeys, token)
                          ELSE apiKeys
            /\ UNCHANGED keyLog
    /\ UNCHANGED <<keySeq, bootstrap, auth, logger, serverVars, dmVars>>

\* authenticateKey up to its first await: the 401, or the select is issued
\* and reads the row
AuthSelect(r, token) ==
    /\ auth[r].pc = "idle"
    /\ auth' = [auth EXCEPT ![r] =
                    IF token = NoToken
                    THEN [pc |-> "401", token |-> token, row |-> NoRow]
                    ELSE [pc |-> "selected", token |-> token,
                          row |-> IF token \in DOMAIN apiKeys THEN apiKeys[token]
                                  ELSE NoRow]]
    /\ UNCHANGED <<apiKeys, keySeq, bootstrap, keyLog, logger, serverVars, dmVars,
                   rlVars>>

\* authenticateKey after the select: the checks on the row that was read,
\* checkRateLimit, and the update is issued
AuthCheck(r) ==
    LET row == auth[r].row
        id == auth[r].token
    IN
    /\ auth[r].pc = "selected"
    /\ IF row = NoRow \/ row.status # "active"
       THEN /\ auth' = [auth EXCEPT ![r].pc = "403"]
            /\ UNCHANGED rlVars
       ELSE IF QuotaSpent(row)
       THEN /\ auth' = [auth EXCEPT ![r].pc = "429"]
            /\ UNCHANGED rlVars
       ELSE /\ RateLimited(id, row.rateLimit)
            /\ auth' = [auth EXCEPT ![r].pc = IF rlLast'.allowed THEN "updating"
                                              ELSE "429"]
    /\ UNCHANGED <<apiKeys, keySeq, bootstrap, keyLog, logger, serverVars, dmVars>>

\* authenticateKey after the update: totalRequests + 1 in the table, next()
AuthUpdate(r) ==
    /\ auth[r].pc = "updating"
    /\ apiKeys' = CountRequest(apiKeys, auth[r].token)
    /\ auth' = [auth EXCEPT ![r].pc = "next"]
    /\ UNCHANGED <<keySeq, bootstrap, keyLog, logger, serverVars, dmVars, rlVars>>

NextAuth ==
    \/ \E r \in AuthIds, token \in Tokens : AuthSelect(r, token)
    \/ \E r \in AuthIds : AuthCheck(r)
    \/ \E r \in AuthIds : AuthUpdate(r)

\* a guard that ignores the logged flag
LogEveryTime(l) ==
    IF l.apiKeyId # 0 THEN [l EXCEPT !.logged = TRUE, !.hooks = @ + 1] ELSE l

\* if (!logged && req.apiKeyId) { logged = true; logRequest(...) }
LogOnce(l) ==
    IF ~l.logged /\ l.apiKeyId # 0
    THEN [l EXCEPT !.logged = TRUE, !.hooks = @ + 1]
    ELSE l

\* requestLoggerMiddleware(req, res, next): res.send is wrapped and the
\* 'finish' listener registered
RequestLoggerMiddleware(r) ==
    /\ logger[r].stage = "new"
    /\ logger' = [logger EXCEPT ![r].stage = "chain", ![r].wrapped = TRUE]
    /\ UNCHANGED <<apiKeys, keySeq, bootstrap, keyLog, auth, serverVars, dmVars,
                   rlVars>>

\* authenticateKey sets req.apiKeyId = matchedKey.id
SetApiKeyId(r, id) ==
    /\ logger[r].stage = "chain"
    /\ logger[r].apiKeyId = 0
    /\ logger' = [logger EXCEPT ![r].apiKeyId = id]
    /\ UNCHANGED <<apiKeys, keySeq, bootstrap, keyLog, auth, serverVars, dmVars,
                   rlVars>>

\* a handler calls res.send (res.json does): the wrapper restores the
\* original, logs, and calls the original, which sends the response unless
\* something sent it before
ResSend(r) ==
    /\ logger[r].wrapped
    /\ logger' = [logger EXCEPT
                      ![r] = [LogOnce(@) EXCEPT
                                 !.wrapped = FALSE,
                                 !.headersSent = TRUE,
                                 !.stage = IF @ = "chain" THEN "ended" ELSE @]]
    /\ UNCHANGED <<apiKeys, keySeq, bootstrap, keyLog, auth, serverVars, dmVars,
                   rlVars>>

\* a handler answers without res.send: a file piped into res, or res.end
ResStream(r) ==
    /\ logger[r].stage = "chain"
    /\ logger' = [logger EXCEPT ![r].headersSent = TRUE, ![r].stage = "ended"]
    /\ UNCHANGED <<apiKeys, keySeq, bootstrap, keyLog, auth, serverVars, dmVars,
                   rlVars>>

\* res.on('finish'): the response has been handed to the socket
ResFinish(r) ==
    /\ logger[r].stage = "ended"
    /\ logger' = [logger EXCEPT
                      ![r] = [(IF @.headersSent THEN LogOnce(@) ELSE @)
                                 EXCEPT !.stage = "finished"]]
    /\ UNCHANGED <<apiKeys, keySeq, bootstrap, keyLog, auth, serverVars, dmVars,
                   rlVars>>

NextLogger ==
    \/ \E r \in AuthIds : RequestLoggerMiddleware(r)
    \/ \E r \in AuthIds, id \in 1..MaxKeys : SetApiKeyId(r, id)
    \/ \E r \in AuthIds : ResSend(r)
    \/ \E r \in AuthIds : ResStream(r)
    \/ \E r \in AuthIds : ResFinish(r)

NextKeys ==
    \/ \E token \in Tokens : DeleteAllKeys(token)
    \/ \E r \in BootstrapIds : BootstrapSelect(r)
    \/ \E r \in BootstrapIds : BootstrapInsert(r)
    \/ \E token \in Tokens, limit \in BodyLimits : CreateKey(token, limit)
    \/ \E token \in Tokens, id \in 1..MaxKeys : DeleteKey(token, id)

\* downloads whose output is read while one client subscribes
NextParser ==
    \/ \E f \in Formats : PostDownload("https://v/1", f)
    \/ \E j \in JobIds : MkdirThenSpawn(j, FALSE)
    \/ \E j \in JobIds, s \in Chunks : StdoutData(j, s, MaxChunks - 1)
    \/ \E j \in JobIds, code \in ExitCodes : Close(j, code)
    \/ Connect(1)
    \/ \E j \in JobIds : Subscribe(1, j)
    \/ Disconnect(1)

\* downloads whose output carries sizes and ETAs with and without percentage
NextFields ==
    \/ \E f \in Formats : PostDownload("https://v/1", f)
    \/ \E j \in JobIds : MkdirThenSpawn(j, FALSE)
    \/ \E j \in JobIds, s \in FieldChunks : StdoutData(j, s, MaxChunks)
    \/ \E j \in JobIds, code \in ExitCodes : Close(j, code)
    \/ \E j \in JobIds : StatOk(j)
    \/ \E j \in JobIds : StatFail(j)
    \/ \E j \in JobIds : PipeData(j)
    \/ \E j \in JobIds : PipeEnd(j)
    \/ \E j \in JobIds : PipeError(j)
    \/ \E j \in JobIds : RmDone(j)

\* downloads whose output announces destinations and a merge, up to the
\* end of the transfer
NextFile ==
    \/ \E f \in Formats : PostDownload("https://v/1", f)
    \/ \E j \in JobIds : MkdirThenSpawn(j, FALSE)
    \/ \E j \in JobIds, s \in FileChunks : StdoutData(j, s, MaxChunks)
    \/ \E j \in JobIds, code \in ExitCodes : Close(j, code)
    \/ \E j \in JobIds : StatOk(j)
    \/ \E j \in JobIds : StatFail(j)
    \/ \E j \in JobIds : PipeData(j)
    \/ \E j \in JobIds : PipeEnd(j)
    \/ \E j \in JobIds : PipeError(j)
    \/ \E j \in JobIds : RmDone(j)

\* the step of job A that updates its progress, ends it, cleans up or evicts
StepFor(A) ==
    \/ \E s \in WsChunks : StdoutData(A, s, MaxChunks - 1)
    \/ \E code \in ExitCodes : Close(A, code)
    \/ StatOk(A)
    \/ StatFail(A)
    \/ PipeEnd(A)
    \/ RmDone(A)
    \/ Evict(A)

\* two downloads side by side
NextFrame ==
    \/ \E f \in Formats : PostDownload("https://v/1", f)
    \/ \E j \in GateIds : MkdirThenSpawn(j, FALSE)
    \/ \E j \in GateIds : StepFor(j)
    \/ Tick

\* one connection that sends messages of every kind while a job runs
NextSub ==
    \/ \E f \in Formats : PostDownload("https://v/1", f)
    \/ \E j \in JobIds : MkdirThenSpawn(j, FALSE)
    \/ \E j \in JobIds, s \in WsChunks : StdoutData(j, s, MaxChunks - 1)
    \/ \E j \in JobIds, code \in ExitCodes : Close(j, code)
    \/ Connect(1)
    \/ \E text \in Texts : OnMessage(1, text)
    \/ Disconnect(1)

\* download requests from arrival to the end of their child process
NextGate ==
    \/ \E f \in Formats : PostDownload("https://v/1", f)
    \/ \E j \in GateIds : MkdirThenSpawn(j, FALSE)
    \/ \E j \in GateIds, code \in ExitCodes : Close(j, code)
    \/ \E j \in GateIds : RmDone(j)

NextQuery ==
    \/ \E id \in QueryIds : GetProgress(id)
    \/ QueryDone
    \/ \E url \in Urls, f \in Formats : Quiet /\ PostDownload(url, f)
    \/ \E j \in JobIds, m \in MkdirErrors : Quiet /\ MkdirFail(j, m)
    \/ \E j \in JobIds, e \in BOOLEAN : Quiet /\ MkdirThenSpawn(j, e)
    \/ \E j \in JobIds, m \in SpawnThrows : Quiet /\ MkdirThenSpawnThrows(j, m)
    \/ \E j \in JobIds : Quiet /\ SpawnErrorEvent(j)
    \/ \E j \in JobIds, s \in Chunks : Quiet /\ StdoutData(j, s, MaxChunks)
    \/ \E j \in JobIds, code \in ExitCodes : Quiet /\ Close(j, code)
    \/ \E j \in JobIds : Quiet /\ StatOk(j)
    \/ \E j \in JobIds : Quiet /\ StatFail(j)
    \/ \E j \in JobIds : Quiet /\ PipeData(j)
    \/ \E j \in JobIds : Quiet /\ PipeEnd(j)
    \/ \E j \in JobIds : Quiet /\ PipeError(j)
    \/ \E j \in JobIds : Quiet /\ ClientAbort(j)
    \/ \E j \in JobIds : Quiet /\ RmDone(j)
    \/ \E j \in JobIds : Quiet /\ Evict(j)
    \/ Quiet /\ Tick

\* the server, with registry updates addressed to ids that have no entry
NextRegistry ==
    \/ Next
    \/ \E j \in JobIds, s \in Chunks : StaleUpdate(j, s)

\* the server, with the cleanup statement run a second time
NextCleanup ==
    \/ Next
    \/ \E j \in JobIds : CleanupAgain(j)

\* the output of one run of the external process: the Destination line that
\* tells the handler where the file is, then two percentage lines
Script == <<K_DEST, K_P10, K_P100>>

\* the chunk of the script that is due
ScriptChunk == IF chunksSeen < Len(Script) THEN Script[chunksSeen + 1] ELSE <<>>

\* the server, with the external process writing the script
NextScenario ==
    \/ \E url \in Urls, f \in Formats : PostDownload(url, f)
    \/ \E j \in JobIds, m \in MkdirErrors : MkdirFail(j, m)
    \/ \E j \in JobIds, e \in BOOLEAN : MkdirThenSpawn(j, e)
    \/ \E j \in JobIds, m \in SpawnThrows : MkdirThenSpawnThrows(j, m)
    \/ \E j \in JobIds : SpawnErrorEvent(j)
    \/ \E j \in JobIds : StdoutData(j, ScriptChunk, Len(Script))
    \/ \E j \in JobIds, code \in ExitCodes : Close(j, code)
    \/ \E j \in JobIds : StatOk(j)
    \/ \E j \in JobIds : StatFail(j)
    \/ \E j \in JobIds : PipeData(j)
    \/ \E j \in JobIds : PipeEnd(j)
    \/ \E j \in JobIds : PipeError(j)
    \/ \E j \in JobIds : ClientAbort(j)
    \/ \E j \in JobIds : RmDone(j)
    \/ \E j \in JobIds : Evict(j)
    \/ Tick

Spec == Init /\ [][Next]_vars

SpecScenario == Init /\ [][NextScenario]_vars

SpecQuery == Init /\ [][NextQuery]_vars

SpecRegistry == Init /\ [][NextRegistry]_vars

SpecCleanup == Init /\ [][NextCleanup]_vars

SpecWS == InitWS /\ [][NextWS]_vars

SpecGate == InitGate /\ [][NextGate]_vars

SpecDM == InitDM /\ [][NextDM]_vars

\* the same runs when the promise of every execute() that was started
\* settles in the end
SpecDMLive ==
    SpecDM /\ WF_vars(\E n \in 1..MaxSubmits, o \in Outcomes : Settle(n, o))

SpecRate == Init /\ [][NextRate]_vars

SpecKeys == Init /\ [][NextKeys]_vars

SpecParser == InitWS /\ [][NextParser]_vars

SpecFields == Init /\ [][NextFields]_vars

SpecSub == InitWS /\ [][NextSub]_vars

\* requests with any Authorization header pass through authenticateKey
SpecAuth == InitAuth /\ [][NextAuth]_vars

\* requests pass through requestLoggerMiddleware and are answered
SpecLogger == Init /\ [][NextLogger]_vars

SpecFrame == InitFrame /\ [][NextFrame]_vars

SpecFile == Init /\ [][NextFile]_vars

\* the same runs when no pending callback is held back forever: the event
\* loop runs a handler as long as one is due
SpecFileLive == SpecFile /\ WF_vars(NextFile)

-----------------------------------------------------------------------------
(* Properties *)

Last(q) == q[Len(q)]
Statuses(q) == [k \in 1..Len(q) |-> q[k].status]
InRegistry(j) == j \in DOMAIN activeJobs
DirCleaned(j) == j \in tempDirs => j \in rmPending

\* C1: while a job is downloading, the progress written to the registry and
\* broadcast never decreases from one update to the next.
C1_ProgressNeverDecreases ==
    \A j \in JobIds : \A k \in 1..(Len(events[j]) - 1) :
        (events[j][k].status = "downloading"
            /\ events[j][k + 1].status = "downloading")
        => events[j][k].progress <= events[j][k + 1].progress

\* C2: a job that is initializing or downloading has progress at most 99, and
\* progress is 100 only when the status is streaming or completed.
C2_ProgressBelowFullUntilStreaming ==
    \A j \in DOMAIN activeJobs :
        /\ activeJobs[j].status \in {"initializing", "downloading"}
               => activeJobs[j].progress <= 990
        /\ activeJobs[j].progress = 1000
               => activeJobs[j].status \in {"streaming", "completed"}

\* a streaming job whose output announced 100% while it was downloading
C2_Witness ==
    \E j \in DOMAIN activeJobs :
        /\ activeJobs[j].status = "streaming" /\ activeJobs[j].progress = 1000
        /\ \E k \in 1..Len(events[j]) :
               /\ events[j][k].status = "downloading"
               /\ events[j][k].stage = <<"Downloading: ", <<100, 0>>, "%">>
               /\ events[j][k].progress = 990

\* C3: once a job is completed or failed, no step changes its registry entry;
\* the only later change is the eviction of the whole entry, which is final.
C3_TerminalEntryFrozen ==
    [][\A j \in JobIds :
          /\ (InRegistry(j) /\ IsTerminal(activeJobs[j]))
                 => (j \notin DOMAIN activeJobs' \/ activeJobs'[j] = activeJobs[j])
          /\ (j \in Created /\ ~InRegistry(j)) => j \notin DOMAIN activeJobs'
      ]_vars

\* a terminal job after time has passed and its cleanup has run
C3_Witness ==
    \E j \in DOMAIN activeJobs :
        /\ IsTerminal(activeJobs[j])
        /\ termAge[j] > 0
        /\ j \notin tempDirs /\ j \notin rmPending

\* C4: the event that carries a terminal status is the last event broadcast
\* for its job.
C4_TerminalEventIsLast ==
    \A j \in JobIds : \A k \in 1..Len(events[j]) :
        IsTerminal(events[j][k]) => k = Len(events[j])

\* a job whose terminal event was broadcast, some time ago, after other events
C4_Witness ==
    \E j \in DOMAIN termAge :
        /\ Len(events[j]) >= 3
        /\ IsTerminal(Last(events[j]))
        /\ termAge[j] > 0

\* the five transitions of the design's state machine
ListedTransitions ==
    {<<"initializing", "downloading">>, <<"downloading", "streaming">>,
     <<"downloading", "failed">>, <<"streaming", "completed">>,
     <<"streaming", "failed">>}

StatusChangesWithin(allowed) ==
    \A j \in DOMAIN activeJobs \cap DOMAIN activeJobs' :
        activeJobs'[j].status # activeJobs[j].status
        => <<activeJobs[j].status, activeJobs'[j].status>> \in allowed

\* C5 as stated: every status change is one of the five listed transitions.
C5_OnlyListedTransitions == [][StatusChangesWithin(ListedTransitions)]_vars

\* C5: every status change is one of the five listed transitions or leaves
\* initializing for failed or for streaming; none leads back to initializing.
C5_Transitions ==
    [][StatusChangesWithin(ListedTransitions
                           \cup {<<"initializing", "failed">>,
                                 <<"initializing", "streaming">>})]_vars

\* a job that went through initializing, downloading, streaming, completed
C5_Witness ==
    \E j \in JobIds :
        Statuses(events[j]) = <<"initializing", "downloading", "streaming", "completed">>

\* C6: after an I/O error during the transfer the job is failed, a failed
\* event was broadcast and the temporary directory is removed.
C6_StreamErrorFailsJob ==
    \A j \in JobIds :
        pc[j] \in {"streamfailed", "statfailed"}
        => /\ activeJobs[j].status = "failed"
           /\ Last(events[j]).status = "failed"
           /\ DirCleaned(j)

C8_SpawnFailureHandled ==
    \A j \in JobIds :
        (\/ pc[j] = "uncaught"
         \/ pc[j] = "caught" /\ activeJobs[j].error \in SpawnThrows)
        => /\ activeJobs[j].status = "failed"
           /\ res[j].statusCode = 500
           /\ serverUp

\* C9: a download request without a url is answered 400 and changes nothing:
\* no job, no directory, no event, no process.
C9_MissingUrlRejected ==
    [][(lastReq' # lastReq /\ lastReq'.url \in {Undefined, ""})
          => /\ lastReq'.answer = "400"
             /\ UNCHANGED <<activeJobs, pc, tempDirs, rmLog, rmPending, events, clients,
                            res, exitCode, timers>>
      ]_vars

\* a request without url was rejected while a job and its directory exist
C9_Witness ==
    /\ lastReq = [url |-> Undefined, answer |-> "400"]
    /\ \E j \in DOMAIN activeJobs : j \in tempDirs

\* C10: a job is in the registry until it is terminal, stays there for five
\* minutes after that, and is evicted then.
C10_EvictedAfterRetention ==
    \A j \in Created :
        /\ ~InRegistry(j) => (j \in DOMAIN termAge /\ termAge[j] >= RETENTION_MS)
        /\ (j \in DOMAIN termAge /\ termAge[j] > RETENTION_MS) => ~InRegistry(j)

-----------------------------------------------------------------------------
(* The progress endpoint *)

\* job ids the server handed out whose entry has been deleted again
Evicted == {j \in Created : j \notin DOMAIN activeJobs}

\* C11: every progress query for an id that was never created or has been
\* evicted is answered 404, and every query for an id in the registry is
\* answered with the current snapshot of that job
C11_QueryAnswersFromRegistry ==
    [][\A id \in QueryIds :
          (Quiet /\ lastQuery' # NoQuery /\ lastQuery'.jobId = id)
          => /\ (id \notin Created \/ id \in Evicted) => lastQuery'.status = 404
             /\ id \in DOMAIN activeJobs
                => /\ lastQuery'.status = 200
                   /\ lastQuery'.body = Stringify(activeJobs[id])]_vars

\* an evicted id has been queried and answered not-found
C11_Witness ==
    /\ lastQuery.jobId \in Evicted
    /\ lastQuery.status = 404

-----------------------------------------------------------------------------
(* The registry update *)

-----------------------------------------------------------------------------
(* Broadcast and subscription *)

\* connection c is open and its subscription names job j
Subscribed(c, j) ==
    /\ clients[c].readyState = "OPEN"
    /\ Has(clients[c], "jobId")
    /\ clients[c].jobId = j

\* the messages of the updates broadcast for job j by the step, in order
Broadcast(j) ==
    [k \in 1..(Len(events'[j]) - Len(events[j])) |->
        Stringify(events'[j][Len(events[j]) + k])]

\* the messages connection c receives in the step
Received(c) ==
    SubSeq(clients'[c].sent, Len(clients[c].sent) + 1, Len(clients'[c].sent))

\* C13: any two connections that are both open and subscribed to the same
\* job each receive every update broadcast for that job, in the order the
\* updates were produced
C13_SubscribersReceiveAllInOrder ==
    [][\A j \in JobIds : \A c, d \in ClientIds :
          (c # d /\ Subscribed(c, j) /\ Subscribed(d, j))
          => /\ clients'[c].sent = clients[c].sent \o Broadcast(j)
             /\ clients'[d].sent = clients[d].sent \o Broadcast(j)]_vars

\* two connections subscribed to the same job at different times: the later
\* one holds two updates, the earlier one these and more
C13_Witness ==
    \E j \in JobIds : \E c, d \in ClientIds :
        /\ Subscribed(c, j) /\ Subscribed(d, j)
        /\ Len(clients[d].sent) >= 2
        /\ Len(clients[c].sent) > Len(clients[d].sent)

\* C14: a connection receives only updates that are broadcast, in the step
\* in which it receives them, for the job its subscription named before that
\* step; nothing broadcast earlier is replayed, at subscription or later
C14_NoReplay ==
    [][\A c \in ClientIds :
          /\ Len(clients'[c].sent) >= Len(clients[c].sent)
          /\ SubSeq(clients'[c].sent, 1, Len(clients[c].sent)) = clients[c].sent
          /\ Received(c) # <<>>
             => \E j \in JobIds : Subscribed(c, j) /\ Received(c) = Broadcast(j)]_vars

\* a connection that subscribed after the first update of a job holds the
\* later updates and not the ones it missed
C14_Witness ==
    \E j \in JobIds : \E c \in ClientIds :
        /\ Subscribed(c, j)
        /\ Len(clients[c].sent) >= 1
        /\ Len(clients[c].sent) < Len(events[j])
        /\ Last(clients[c].sent) = Stringify(Last(events[j]))

\* job j has broadcast a completed or failed update
Finished(j) == events[j] # <<>> /\ IsTerminal(Last(events[j]))

\* C15: once a job has reached completed or failed, no connection receives an
\* event of that job, so one that subscribes from then on receives none
C15_NothingAfterTerminal ==
    [][\A j \in JobIds : \A c \in ClientIds :
          Finished(j)
          => \A k \in 1..Len(Received(c)) : Received(c)[k].jobId # j]_vars

\* a connection subscribed to a finished job without having received anything
C15_Witness ==
    \E j \in JobIds : \E c \in ClientIds :
        /\ Finished(j)
        /\ Subscribed(c, j)
        /\ clients[c].sent = <<>>

-----------------------------------------------------------------------------
(* Temporary directories *)

\* C16, as claimed: in every state in which a job is completed or failed its
\* temporary directory has been removed
C16_TerminalDirRemoved ==
    \A j \in DOMAIN activeJobs : IsTerminal(activeJobs[j]) => j \notin tempDirs

\* C16, amended: in every state in which a job is completed or failed the
\* removal of its temporary directory has been started: the directory is
\* gone or an fs.rm of it is in flight
C16_TerminalDirRemovalStarted ==
    \A j \in DOMAIN activeJobs : IsTerminal(activeJobs[j]) => DirCleaned(j)

\* a completed job whose directory existed and has been removed
C16_Witness ==
    \E j \in DOMAIN activeJobs :
        /\ activeJobs[j].status = "completed"
        /\ rmCount[j] = 1
        /\ j \notin tempDirs

\* C17: the cleanup of a job raises no error and leaves the directory absent,
\* the same after the second run as after the first, also for a job whose
\* directory was never created
C17_CleanupIdempotent ==
    /\ rmErrors = {}
    /\ \A j \in JobIds : rmCount[j] >= 1 => j \notin tempDirs

\* mkdir failed, so the directory never existed, and cleanup has run twice
C17_Witness ==
    \E j \in JobIds :
        /\ pc[j] = "caught"
        /\ Len(events[j]) = 1
        /\ rmCount[j] = 2
        /\ j \notin tempDirs

-----------------------------------------------------------------------------
(* One download from its output to completed *)

\* job j is the one that read the whole script: no other job holds a file
\* path or a downloading update
ReadScript(j) ==
    /\ chunksSeen = Len(Script)
    /\ \A i \in JobIds \ {j} :
          /\ downloadedFile[i] = Null
          /\ \A k \in 1..Len(events[i]) : events[i][k].status # "downloading"

\* C18: after the output "[download] 10.0% of ~50.00MiB ETA 00:30" and
\* "[download] 100% of 50.00MiB", exit code zero and an output file the
\* handler can locate, the states of the job are exactly initializing,
\* downloading at 10 with totalSize "50.00MiB" and eta "00:30", downloading
\* at 99, streaming at 100, completed
C18_ScenarioStates ==
    \A j \in JobIds :
        (ReadScript(j) /\ pc[j] = "ended")
        => /\ Statuses(events[j]) = <<"initializing", "downloading", "downloading",
                                      "streaming", "completed">>
           /\ events[j][1].progress = 0
           /\ events[j][2].progress = 100
           /\ events[j][2].totalSize = "50.00MiB"
           /\ events[j][2].eta = "00:30"
           /\ events[j][3].progress = 990
           /\ events[j][4].progress = 1000
           /\ j \in DOMAIN activeJobs => activeJobs[j] = events[j][5]

\* the job of the scenario has exited with code zero and is completed
C18_Witness ==
    \E j \in JobIds :
        /\ ReadScript(j)
        /\ pc[j] = "ended"
        /\ exitCode[j] = 0
        /\ InRegistry(j)
        /\ activeJobs[j].status = "completed"

-----------------------------------------------------------------------------
(* The job id in the response *)

\* the response of job j has left with the job id in its X-Job-ID header
IdDelivered(j) ==
    /\ res[j].headersSent
    /\ Has(res[j].headers, "X-Job-ID")
    /\ res[j].headers["X-Job-ID"] = j

\* C19: every response to an accepted download request carries the id of its
\* job in the X-Job-ID header, whether the job ends completed or failed
C19_ResponseCarriesJobId ==
    \A j \in Created : res[j].headersSent => IdDelivered(j)

\* C20: the job id of an accepted download has reached the requester before
\* the external process exits, in time to subscribe to downloading events
C20_IdDeliveredBeforeExit ==
    \A j \in DOMAIN exitCode : IdDelivered(j)

-----------------------------------------------------------------------------
(* The download queue *)

\* the child processes spawned by download requests that have not exited
Running == {j \in DOMAIN pc : pc[j] = "running"}

\* C21: at every moment the number of child processes spawned by download
\* requests and not yet exited is at most the configured maximum concurrent
\* count, a request arriving when that many run being kept waiting
C21_SpawnedWithinLimit == Cardinality(Running) <= dmMax

\* the jobs handed to addToQueue had pairwise distinct job ids
DistinctIds ==
    \A a, b \in 1..Len(dmJobs) : dmJobs[a].jobId = dmJobs[b].jobId => a = b

\* the jobs whose execute() has started and not yet settled
Executing == {n \in 1..Len(dmJobs) : dmJobs[n].state = "executing"}

\* the jobs handed to addToQueue whose execute() has not been invoked
Waiting == {n \in 1..Len(dmJobs) : dmJobs[n].state = "queued"}

\* C22: for addToQueue calls with pairwise distinct job ids and any
\* interleaving of completions, the number of jobs whose execute() has
\* started and not yet settled never exceeds maxConcurrentDownloads
C22_ExecutingWithinMax == DistinctIds => Cardinality(Executing) <= dmMax

\* every slot is taken, a job waits and a job has already completed
C22_Witness ==
    /\ DistinctIds
    /\ Cardinality(Executing) = dmMax
    /\ dmQueue # <<>>
    /\ \E n \in 1..Len(dmJobs) : dmJobs[n].state = "completed"

\* C23: jobs are started first in, first out: of two jobs, the one whose
\* addToQueue was called first has its execute() invoked first
C23_StartedInSubmissionOrder ==
    \A i \in 1..Len(dmStarted) : dmStarted[i] = i

\* with one slot, every submitted job has been started, all but the first
\* after a wait in the queue
C23_Witness ==
    /\ dmMax = 1
    /\ Len(dmStarted) = MaxSubmits
    /\ \A n \in 1..Len(dmJobs) : dmJobs[n].kind = "async"

\* C24: when execute() of a job rejects or throws, the slot of the job is
\* released and the next queued job, if any, is started: after the failure
\* a job waits only if every slot is taken
C24_FailureReleasesSlot ==
    [][\A n \in 1..Len(dmJobs') :
          ( /\ DistinctIds'
            /\ dmJobs'[n].state = "failed"
            /\ (n \in 1..Len(dmJobs) => dmJobs[n].state # "failed") )
          => /\ dmJobs'[n].jobId \notin DOMAIN dmActive'
             /\ dmQueue' = <<>> \/ Cardinality(DOMAIN dmActive') = dmMax]_vars

\* what getQueueStatus() and isJobActive() report is what the jobs are doing
StatusExact ==
    /\ GetQueueStatus.activeDownloads = Cardinality(Executing)
    /\ GetQueueStatus.activeJobs = {dmJobs[n].jobId : n \in Executing}
    /\ GetQueueStatus.queuedDownloads = Cardinality(Waiting)
    /\ \A id \in DmJobIds :
          IsJobActive(id) <=> \E n \in Executing : dmJobs[n].jobId = id

\* C25 as stated, for any sequence of submitted jobs: getQueueStatus()
\* reports the number and the ids of the jobs in flight and the number of
\* jobs not yet started, isJobActive(id) is true exactly while a job with
\* that id executes
C25_StatusExactAnyJobs == StatusExact

\* C25: the same for jobs submitted with pairwise distinct job ids
C25_StatusExactDistinctIds == DistinctIds => StatusExact

\* a status read while two jobs execute and one waits
C25_Witness ==
    /\ DistinctIds
    /\ dmStatus = GetQueueStatus
    /\ dmStatus.activeDownloads = 2
    /\ dmStatus.queuedDownloads = 1
    /\ Cardinality(Executing) = 2

-----------------------------------------------------------------------------
(* The error field *)

\* C26: in every reachable state a registry entry has an error field if and
\* only if its status is failed
C26_ErrorIffFailed ==
    \A j \in DOMAIN activeJobs :
        Has(activeJobs[j], "error") <=> activeJobs[j].status = "failed"

\* one job failed by a non-zero exit, after progress had been parsed
C26_Witness ==
    \E j \in DOMAIN activeJobs :
        /\ activeJobs[j].status = "failed"
        /\ Has(activeJobs[j], "error")
        /\ j \in DOMAIN exitCode
        /\ exitCode[j] # 0
        /\ chunksSeen > 0

-----------------------------------------------------------------------------
(* The rate limiter *)

\* the allowed calls of key k, by position in its history
AllowedCalls(k) == IF k \in DOMAIN rlAllowed THEN rlAllowed[k] ELSE <<>>

\* the number of calls allowed for key k from its i-th allowed call on and
\* less than 60000 ms later
AllowedWithin(k, i) ==
    Cardinality({m \in i..Len(AllowedCalls(k)) :
                    AllowedCalls(k)[m] - AllowedCalls(k)[i] < WindowMs})

\* what a call for key k would be answered in this state
Outcome(k) == CheckRateLimit(rateLimitStore, k, RateLimitOf(k), now)

\* in every interval shorter than 60000 ms at most `limit` calls of a key
\* have been allowed
AllowedWithinLimit ==
    \A k \in RlKeys : \A i \in 1..Len(AllowedCalls(k)) :
        AllowedWithin(k, i) <= RateLimitOf(k)

\* a call for one key changes neither the stored timestamps of another key
\* nor the answer a call for the other key gets
KeysIndependent ==
    \A a, b \in RlKeys :
        (a # b /\ RateLimitCall(a))
        => /\ Recent(IF b \in DOMAIN rateLimitStore THEN rateLimitStore[b]
                     ELSE <<>>, now)
              = Recent(IF b \in DOMAIN rateLimitStore' THEN rateLimitStore'[b]
                       ELSE <<>>, now')
           /\ Outcome(b).allowed = Outcome(b)'.allowed
           /\ Outcome(b).remaining = Outcome(b)'.remaining

\* C27: for every key and every interval shorter than 60000 ms,
\* checkRateLimit allows at most `limit` calls of the key within the
\* interval (clock non-decreasing), and calls for one key never change the
\* outcome for another key
C27_RateLimitPerKey == [][AllowedWithinLimit' /\ KeysIndependent]_vars

\* a key used up its limit, was refused, and was allowed again once the
\* window had passed, while the other key had calls of its own
C27_Witness ==
    \E k \in RlKeys :
        /\ Len(AllowedCalls(k)) > RateLimitOf(k)
        /\ rlLast.key = k
        /\ rlLast.allowed
        /\ \E b \in RlKeys \ {k} : AllowedCalls(b) # <<>>

-----------------------------------------------------------------------------
(* The stored API keys *)

\* the bootstrap requests answered 201
Bootstrapped == {r \in BootstrapIds : bootstrap[r] = "201"}

\* C28: bootstrap creates a key only when no keys exist: under any
\* interleaving of concurrent bootstrap requests at most one succeeds while
\* no keys are deleted in between (a request whose select finds a key is
\* answered 403 by BootstrapSelect itself)
C28_OneBootstrapSucceeds ==
    ~keyLog.deleted => Cardinality(Bootstrapped) <= 1

\* C29: no request without a valid, active API key changes the set of
\* stored keys, except a bootstrap request made when the store is empty
C29_KeysChangeOnlyWithValidKey ==
    [][DOMAIN apiKeys' # DOMAIN apiKeys
       => keyLog'.valid \/ keyLog'.route = "bootstrap"]_vars

-----------------------------------------------------------------------------
(* Output the parser does not recognise *)

\* the chunk matches none of the five patterns of the 'data' handler
NoPattern(s) ==
    /\ ~DownloadMatch(s).matched
    /\ ~SizeMatch(s).matched
    /\ ~EtaMatch(s).matched
    /\ ~DestMatch(s).matched
    /\ ~MergerMatch(s).matched

\* C30: an output chunk that matches none of the recognised patterns leaves
\* the registry entry of the job unchanged, broadcasts no event and raises
\* no error
C30_UnrecognisedChunkIgnored ==
    [][\A j \in JobIds, s \in Chunks :
          (NoPattern(s) /\ StdoutData(j, s, MaxChunks - 1))
          => /\ activeJobs' = activeJobs
             /\ events' = events
             /\ clients' = clients
             /\ downloadedFile' = downloadedFile
             /\ pc' = pc
             /\ serverUp']_vars

\* the only chunk read so far matched nothing: the job is still as the
\* request created it and its subscriber has received nothing
C30_Witness ==
    \E j \in JobIds :
        /\ pc[j] = "running"
        /\ chunksSeen = 1
        /\ downloadedFile[j] = Null
        /\ activeJobs[j].status = "initializing"
        /\ \E c \in DOMAIN clients : Subscribed(c, j) /\ clients[c].sent = <<>>

-----------------------------------------------------------------------------
(* The fields of a line *)

\* the attributes of job j other than totalSize and eta are as they were
OtherAttributesKept(j) ==
    /\ DOMAIN activeJobs'[j] \ {"totalSize", "eta"}
          = DOMAIN activeJobs[j] \ {"totalSize", "eta"}
    /\ \A k \in DOMAIN activeJobs[j] \ {"totalSize", "eta"} :
          activeJobs'[j][k] = activeJobs[j][k]

\* C31: each recognised field is applied independently of the others: a
\* chunk with a size or an ETA sets totalSize or eta of the job whether or
\* not a percentage is on the same line, and without a percentage no other
\* attribute of the job changes
C31_FieldsAppliedIndependently ==
    [][\A j \in JobIds, s \in FieldChunks :
          StdoutData(j, s, MaxChunks)
          => /\ EtaMatch(s).matched
                => /\ Has(activeJobs'[j], "eta")
                   /\ activeJobs'[j].eta = EtaMatch(s).group
             /\ SizeMatch(s).matched
                => /\ Has(activeJobs'[j], "totalSize")
                   /\ activeJobs'[j].totalSize = SizeMatch(s).group
             /\ ~DownloadMatch(s).matched => OtherAttributesKept(j)]_vars

-----------------------------------------------------------------------------
(* The file that is streamed *)

\* fs.createReadStream(downloadedFile) of job j has been called
Streamed(j) == pc[j] \in {"piping", "ended"}

\* the chunk announces a merge or a destination
Announces(s) == MergerMatch(s).matched \/ DestMatch(s).matched

\* the path the chunk announces: the merge path, else the destination
Announced(s) ==
    IF MergerMatch(s).matched THEN Trim(MergerMatch(s).group)
    ELSE Trim(DestMatch(s).group)

-----------------------------------------------------------------------------
(* After the exit of the process *)

\* job j has been given the status completed or failed
ReachedTerminal(j) ==
    \E i \in 1..Len(events[j]) : events[j][i].status \in {"completed", "failed"}

\* C33: every job whose external process has exited eventually reaches a
\* terminal state (completed or failed), on every path after the exit,
\* a failure to stat or open the output file and a transfer cut short
\* included
C33_ExitedJobTerminates ==
    \A j \in JobIds : (j \in DOMAIN exitCode) ~> ReachedTerminal(j)

-----------------------------------------------------------------------------
(* Progress of the queue *)

\* the n-th job handed to addToQueue
Submitted(n) == n <= Len(dmJobs)

\* execute() of the n-th job has been invoked
Started(n) == Submitted(n) /\ dmJobs[n].state # "queued"

\* C34: if every execute() that was started settles in the end, every job
\* passed to addToQueue is started in the end: no job waits in the queue
\* forever while a slot is free or becomes free
C34_EveryJobStarted ==
    \A n \in 1..MaxSubmits : Submitted(n) ~> Started(n)

-----------------------------------------------------------------------------
(* Jobs side by side *)

\* the registry entry and the temporary directory of job B are as they were
Untouched(B) ==
    /\ InRegistry(B)' <=> InRegistry(B)
    /\ InRegistry(B) => activeJobs'[B] = activeJobs[B]
    /\ B \in tempDirs' <=> B \in tempDirs
    /\ B \in rmPending' <=> B \in rmPending

\* C35: a step performed for job A (progress update, terminal transition,
\* cleanup of the temporary directory, eviction) leaves the registry entry
\* and the temporary directory of every other job B unchanged
C35_OtherJobsUntouched ==
    [][\A A, B \in GateIds : (A # B /\ StepFor(A)) => Untouched(B)]_vars

\* one job has completed, been cleaned up and evicted while another one is
\* still running with its entry and its directory in place
C35_Witness ==
    \E A, B \in GateIds :
        /\ A # B
        /\ pc[A] = "ended" /\ A \notin tempDirs /\ ~InRegistry(A)
        /\ pc[B] = "running" /\ B \in tempDirs /\ InRegistry(B)

-----------------------------------------------------------------------------
(* The life of a job in the DownloadManager *)

\* the number of times execute() of the n-th job was invoked
Invocations(n) == Cardinality({i \in 1..Len(dmStarted) : dmStarted[i] = n})

\* the n-th job is in this.queue
InQueue(n) == \E i \in 1..Len(dmQueue) : dmQueue[i] = n

\* the events a job may have emitted so far, by the state it is in
EventsOf(state) ==
    IF state = "queued" THEN {<<"queued">>}
    ELSE IF state = "executing" THEN {<<"queued", "started">>}
    ELSE {<<"queued", "started", "completed">>, <<"queued", "started", "failed">>}

\* C36: for every submitted job execute() is invoked exactly once, its
\* events are emitted in the order queued, started, then exactly one of
\* completed or failed, and the job is never both in the waiting queue and
\* in the active set
C36_JobLifeCycle ==
    DistinctIds =>
        \A n \in 1..Len(dmJobs) :
            /\ Invocations(n) = IF dmJobs[n].state = "queued" THEN 0 ELSE 1
            /\ dmJobs[n].events \in EventsOf(dmJobs[n].state)
            /\ ~(InQueue(n) /\ IsJobActive(dmJobs[n].jobId))

-----------------------------------------------------------------------------
(* Subscriptions *)

\* the text is a subscribe message that names job id j
ValidSubscribe(text, j) == text = SubscribeText(j)

\* C37: a connection receives an event for job j only if it is open and
\* its most recent valid subscribe message named j: what it receives in a
\* step is what is broadcast for the job it is subscribed to, a subscribe
\* message replaces the subscription and any other message leaves it as
\* it was
C37_OnlySubscribedEvents ==
    [][\A c \in ClientIds :
          /\ Received(c) # <<>>
             => \E j \in JobIds : Subscribed(c, j) /\ Received(c) = Broadcast(j)
          /\ \A text \in Texts :
                OnMessage(c, text)
                => IF \E j \in SubIds : ValidSubscribe(text, j)
                   THEN ValidSubscribe(text, clients'[c].jobId)
                   ELSE clients'[c] = clients[c]]_vars

\* the connection subscribed to a job id that is not the running job's, sent
\* a message of another type, and has received nothing of what the job has
\* broadcast since
C37_Witness ==
    \E j \in JobIds :
        /\ Subscribed(1, MaxJobs + 1)
        /\ wsEvents >= 3
        /\ clients[1].sent = <<>>
        /\ Len(events[j]) >= 2

-----------------------------------------------------------------------------
(* authenticateKey: accounting *)

Rejections == {"401", "403", "429"}

\* the step ends authenticateKey for request r with a 401, 403 or 429
RejectedNow(r) == auth[r].pc \notin Rejections /\ auth'[r].pc \in Rejections

\* the timestamps the limiter holds for every key (none: the empty list)
Timestamps(store) ==
    [k \in 1..MaxKeys |-> IF k \in DOMAIN store THEN store[k] ELSE <<>>]

\* C38: a request that authenticateKey rejects with 401, 403 or 429 leaves
\* the api_keys table (totalRequests of every key) and the timestamps in the
\* rate-limit window of every key as they were
C38_RejectionChangesNoAccounting ==
    [][\A r \in AuthIds :
          RejectedNow(r) => /\ apiKeys' = apiKeys
                            /\ Timestamps(rateLimitStore') = Timestamps(rateLimitStore)]_vars

\* a request was refused by checkRateLimit while the window of its key held
\* a timestamp, and another request of the key was admitted
C38_Witness ==
    \E r, q \in AuthIds :
        /\ auth[r].pc = "429"
        /\ ~QuotaSpent(auth[r].row)
        /\ Timestamps(rateLimitStore)[auth[r].token] # <<>>
        /\ auth[q].pc = "next"
        /\ auth[q].token = auth[r].token

\* the requests of key k for which authenticateKey has called next()
Admitted(k) == {r \in AuthIds : auth[r].pc = "next" /\ auth[r].token = k}

\* C40: for a key with maxRequests = M, authenticateKey admits at most M
\* requests, however the requests that use the key interleave
C40_AdmittedWithinMax ==
    \A k \in DOMAIN apiKeys :
        apiKeys[k].maxRequests # NoMax =>
            Cardinality(Admitted(k)) <= apiKeys[k].maxRequests

-----------------------------------------------------------------------------
(* requestLoggerMiddleware *)

\* the response of request r has finished
ResponseFinished(r) == logger[r].stage = "finished"

\* C39: when the response of a request with an API key identity has
\* finished, logRequest has been invoked exactly once for it, and never more
\* than once before; for a request without identity it is never invoked
C39_LoggedExactlyOnce ==
    \A r \in AuthIds :
        /\ logger[r].hooks <= 1
        /\ logger[r].apiKeyId = 0 => logger[r].hooks = 0
        /\ ResponseFinished(r) /\ logger[r].apiKeyId # 0 => logger[r].hooks = 1

\* a request with identity was answered through the wrapped res.send and has
\* finished, another with identity was streamed and has finished
C39_Witness ==
    \E r, q \in AuthIds :
        /\ ResponseFinished(r) /\ logger[r].apiKeyId # 0 /\ ~logger[r].wrapped
        /\ ResponseFinished(q) /\ logger[q].apiKeyId # 0 /\ logger[q].wrapped

====
